---- MODULE Spec2Model ----
(***************************************************************************)
(* Model of monigo's sampling profiler (core/function-metrics.go): the     *)
(* per-identity call counters, the sampling decision, the bracketing of    *)
(* the traced target with profiling, the update of the function-metrics    *)
(* table under its lock, the reflective trace wrappers with their          *)
(* argument validation, and the snapshot read FunctionTraceDetails.        *)
(*                                                                         *)
(* Strings that the code builds or rewrites (function names, identities,   *)
(* profile paths) are sequences of tokens, so that ReplaceAll, Sprintf and *)
(* Join are computed and not assumed.                                      *)
(***************************************************************************)
EXTENDS Integers, Sequences, FiniteSets, TLC

\* ---------------------------------------------------------------- bounds
\* Number of concurrent callers of the trace functions.
NumCallers == 2
\* Total number of trace calls started in one behaviour.
MaxCalls == 3
\* Largest value runtime.NumGoroutine() reports (smallest is 1).
MaxGoroutines == 2
\* Largest value of runtime.MemStats.Alloc (smallest is 0).
MaxAlloc == 1
\* Largest reading of the clock behind time.Now() (the first is 0).
MaxClock == 1
\* Largest argument passed to SetSamplingRate (smallest is -1).
MaxRateArg == 3
\* SetSamplingRate calls per behaviour, made at any moment.
MaxRateCalls == 1
\* SetSamplingRate calls per behaviour on the host whose readings move.
MaxHostRateCalls == 2
\* Number of trace calls started in a behaviour in which the table is read.
\* How many trace calls deep the target of a trace call goes.
MaxDepth == 1
\* Trace calls per behaviour when termination is checked.
MaxLiveCalls == 2
MaxReadCalls == 2
\* Number of trace calls started in a behaviour on the moving host.
MaxHostCalls == 2
\* Number of trace calls started in a behaviour of the reflective wrappers.
MaxReflectCalls == 2
\* Number of trace calls started in a behaviour with failing profiling steps.
MaxFailCalls == 2
\* Number of trace calls started in a behaviour whose snapshots are mutated.
MaxSnapCalls == 3
\* Largest value a stat source reports (smallest is 1).
MaxReading == 2
\* Number of logical cores cpu.Counts(true) reports.
LogicalCores == 2
\* How far below 0 and above 100 percent the loads handed to
\* CalculateOverallLoad go.
MaxOverload == 20
\* The largest health score, in percent: the scores are the half percents
\* from 0 to MaxScore.
MaxScore == 100
\* StoreServiceMetrics calls per behaviour.
MaxStoreCalls == 1
\* The wall clock runs from 0 to MaxWall ticks; TicksPerSecond ticks make a
\* second.
MaxWall == 3
TicksPerSecond == 2
\* The largest number of RawMemStatsRecords in a snapshot.
MaxRawRecords == 1
\* A query fetches points stamped 0..MaxTimestamp, at most MaxPoints per
\* field, for a list of at most MaxFields requested fields.
MaxTimestamp == 1
MaxPoints == 2
MaxFields == 2

\* ------------------------------------------------------- program constants
DefaultSamplingRate == 100

Callers == 1..NumCallers
Readers == {1}
RateArgs == (0 - 1)..MaxRateArg

NoOwner == <<"none", 0>>
CallerOwner(c) == <<"caller", c>>
ReaderOwner(r) == <<"reader", r>>

\* The nil interface value / nil slice a Go function returns.
Nil == <<"nil">>
\* The empty Go string.
EmptyString == << >>

Max(a, b) == IF a >= b THEN a ELSE b

\* ------------------------------------------------------------ Go strings
\* strings.ReplaceAll(s, old, new) for a one-character old and new.
RECURSIVE ReplaceAll(_, _, _)
ReplaceAll(s, old, new) ==
    IF s = << >> THEN << >>
    ELSE <<(IF Head(s) = old THEN new ELSE Head(s))>> \o ReplaceAll(Tail(s), old, new)

\* strings.Join(elems, sep)
RECURSIVE Join(_, _)
Join(elems, sep) ==
    IF elems = << >> THEN << >>
    ELSE IF Len(elems) = 1 THEN <<elems[1]>>
    ELSE <<elems[1], sep>> \o Join(Tail(elems), sep)

\* ------------------------------------------------------------- callables
\* A value handed to a trace function as f. kind is its reflect.Kind; a
\* function has the name runtime.FuncForPC reports, its parameter types
\* (reflect.Type.String() of each, the variadic one as its slice type) and
\* its result types.
FuncNoArgs ==
    [kind |-> "func", name |-> <<"m", "/", "p", ".", "f">>,
     params |-> << >>, variadic |-> FALSE, results |-> << >>]
FuncOther ==
    [kind |-> "func", name |-> <<"m", "/", "p", ".", "k">>,
     params |-> << >>, variadic |-> FALSE, results |-> << >>]
FuncTwoArgs ==
    [kind |-> "func", name |-> <<"m", "/", "p", ".", "g">>,
     params |-> <<"string", "int">>, variadic |-> FALSE,
     results |-> <<"float64", "error">>]
FuncAnyArg ==
    [kind |-> "func", name |-> <<"m", "/", "p", ".", "h">>,
     params |-> <<"interface {}">>, variadic |-> FALSE, results |-> <<"int">>]
FuncVariadic ==
    [kind |-> "func", name |-> <<"m", "/", "p", ".", "v">>,
     params |-> <<"[]int">>, variadic |-> TRUE, results |-> <<"int">>]
\* A function whose result is an instance of a generic type: reflect spells
\* the type argument with its full import path.
FuncGenericResult ==
    [kind |-> "func", name |-> <<"m", "/", "p", ".", "r">>,
     params |-> << >>, variadic |-> FALSE, results |-> <<"p.Box[m/q.T]">>]
\* A callable for which the runtime reports the name of FuncTwoArgs, with
\* another signature: the same parameters and no result.
FuncSameName ==
    [kind |-> "func", name |-> <<"m", "/", "p", ".", "g">>,
     params |-> <<"string", "int">>, variadic |-> FALSE, results |-> << >>]
NotAFunc ==
    [kind |-> "int", name |-> << >>,
     params |-> << >>, variadic |-> FALSE, results |-> << >>]

\* Values of type func(), the only ones TraceFunction accepts.
Thunks == {FuncNoArgs, FuncOther}
Callables ==
    {FuncNoArgs, FuncTwoArgs, FuncAnyArg, FuncVariadic, FuncGenericResult,
     FuncSameName, NotAFunc}

\* An argument is given by its dynamic type; "nil" is the untyped nil
\* interface value, for which reflect.ValueOf returns the zero Value.
ArgValues == {"string", "int", "[]int", "nil"}
MaxArgs == 2
ArgLists == UNION {[1..n -> ArgValues] : n \in 0..MaxArgs}

\* reflect.Type.AssignableTo for the types of the model: identical types,
\* or any type to the empty interface.
AssignableTo(argType, paramType) ==
    \/ argType = paramType
    \/ paramType = "interface {}"

\* Element type of a slice type ("[]int" -> "int").
Elem(sliceType) ==
    IF sliceType = "[]int" THEN "int" ELSE "interface {}"

\* The type-checking loop of the reflective wrappers, from argument i on:
\* "ok", "type" (logged and rejected), or "panic" (Value.Type on the zero
\* Value).
RECURSIVE ValidateArgsFrom(_, _, _)
ValidateArgsFrom(f, args, i) ==
    IF i > Len(args) THEN "ok"
    ELSE IF args[i] = "nil" THEN "panic"
    ELSE IF ~AssignableTo(args[i], f.params[i]) THEN "type"
    ELSE ValidateArgsFrom(f, args, i + 1)

\* A validation that rejects only a surplus of arguments.
ValidateTooManyOnly(f, args) ==
    IF f.kind # "func" THEN "notfunc"
    ELSE IF Len(args) > Len(f.params) THEN "count"
    ELSE ValidateArgsFrom(f, args, 1)

\* The validation that opens TraceFunctionWithArgs and
\* TraceFunctionWithReturns: "notfunc", "count", "type", "panic" or "ok".
Validate(f, args) ==
    IF f.kind # "func" THEN "notfunc"
    ELSE IF Len(args) # Len(f.params) THEN "count"
    ELSE ValidateArgsFrom(f, args, 1)

\* reflect.Value.Call(in) panics instead of calling a variadic function
\* when an argument in a variadic position is not assignable to the
\* element type of the variadic parameter. (The fixed parameters were
\* checked by the validation.)
CallPanics(f, args) ==
    /\ f.variadic
    /\ \E i \in Len(f.params)..Len(args) :
           ~AssignableTo(args[i], Elem(f.params[Len(f.params)]))

\* What the target returns: one value per declared result, in order.
TargetResults(f) ==
    [i \in 1..Len(f.results) |-> [type |-> f.results[i], pos |-> i]]

\* result.Interface() on each reflect.Value a Call returned.
CaptureResults(reflectResults) ==
    [i \in 1..Len(reflectResults) |-> reflectResults[i]]

\* TraceFunction's name: the function's name with "/" replaced by "-".
TraceFunctionName(f) == ReplaceAll(f.name, "/", "-")

\* A name without the result types.
generateFunctionNameNoResults(f) ==
    LET baseName == ReplaceAll(f.name, "/", "-")
    IN  IF Len(f.params) > 0
        THEN baseName \o <<"(">> \o Join(f.params, ",") \o <<")">>
        ELSE baseName

\* generateFunctionName
generateFunctionName(f) ==
    LET baseName == ReplaceAll(f.name, "/", "-")
        withParams ==
            IF Len(f.params) > 0
            THEN baseName \o <<"(">> \o Join(f.params, ",") \o <<")">>
            ELSE baseName
    IN  IF Len(f.results) > 0
        THEN withParams \o <<"->(">> \o Join(f.results, ",") \o <<")">>
        ELSE withParams

\* The two artifact paths of a profiled call.
FolderPath == <<"<basePath>", "/", "profiles">>
CpuProfFilePath(name) == FolderPath \o <<"/">> \o name \o <<"_cpu.prof">>
MemProfFilePath(name) == FolderPath \o <<"/">> \o name \o <<"_mem.prof">>

\* ----------------------------------------------------------- Go maps
\* m[k] of a Go map with zero value `zero` for a missing key.
MapGet(m, k, zero) == IF k \in DOMAIN m THEN m[k] ELSE zero
\* m[k] = v
MapPut(m, k, v) == [x \in (DOMAIN m) \cup {k} |-> IF x = k THEN v ELSE m[x]]
EmptyMap == [x \in {} |-> 0]

\* ---------------------------------------------------- service statistics
\* The sub-collectors GetServiceStats runs in goroutines of their own.
Collectors == {"load", "memory", "cpu", "alloc", "network", "disk"}
\* wg.Add(6)
NumCollectors == 6

\* The stat sources whose error the collectors of this file handle.
FailableSources ==
    {"GetCPUPrecent", "GetVirtualMemoryStats", "getProcessUsage",
     "mem.VirtualMemory", "mem.SwapMemory", "net.IOCounters"}

\* A value of a helper that is not part of this file, kept as a term.
Term(fn, arg) == <<fn, arg>>

\* (percent / 100) * cores, rounded to 3 decimals, in thousandths of a core.
UsedCores(percent, cores) == percent * cores * 10

\* GetCPUStatistics, with r what a source that does not fail reports.
GetCPUStatistics(failed, r) ==
    LET sysCPUPercent == IF "GetCPUPrecent" \in failed THEN 0 ELSE r
        procCPUPercent == IF "getProcessUsage" \in failed THEN 0 ELSE r
    IN  [TotalLogicalCores  |-> LogicalCores,
         CoresUsedBySystem  |-> UsedCores(sysCPUPercent, LogicalCores),
         CoresUsedByService |-> UsedCores(procCPUPercent, LogicalCores)]

\* models.MemoryStatistics{}
ZeroMemoryStatistics ==
    [TotalSystemMemoryRaw |-> 0, TotalSwapMemory |-> EmptyString,
     MemoryUsedByServiceRaw |-> 0]

\* GetMemoryStatistics: nothing but the zero struct when mem.VirtualMemory
\* fails, a zeroed swapInfo when mem.SwapMemory fails.
GetMemoryStatistics(failed, r) ==
    IF "mem.VirtualMemory" \in failed THEN ZeroMemoryStatistics
    ELSE LET swapTotal == IF "mem.SwapMemory" \in failed THEN 0 ELSE r
         IN  [TotalSystemMemoryRaw   |-> r,
              TotalSwapMemory        |-> Term("BytesToUnit", swapTotal),
              MemoryUsedByServiceRaw |-> r]

\* What net.IOCounters(true) reports: one entry per interface.
Interfaces(r) ==
    <<[BytesRecv |-> r, BytesSent |-> r + 1], [BytesRecv |-> 1, BytesSent |-> 0]>>

RECURSIVE SumField(_, _)
SumField(ifaces, field) ==
    IF ifaces = << >> THEN 0
    ELSE Head(ifaces)[field] + SumField(Tail(ifaces), field)

\* GetNetworkIO: 0, 0 on an error, else the totals over the interfaces.
GetNetworkIO(failed, r) ==
    IF "net.IOCounters" \in failed
    THEN [BytesReceived |-> 0, BytesSent |-> 0]
    ELSE [BytesReceived |-> SumField(Interfaces(r), "BytesRecv"),
          BytesSent     |-> SumField(Interfaces(r), "BytesSent")]

\* The fields of stats a sub-collector's goroutine assigns.
WrittenFields(k) ==
    CASE k = "load"    -> {"LoadStatistics"}
      [] k = "memory"  -> {"MemoryStatistics"}
      [] k = "cpu"     -> {"CPUStatistics"}
      [] k = "alloc"   -> {"HeapAllocByService", "HeapAllocBySystem",
                           "TotalAllocByService", "TotalMemoryByOS",
                           "HeapAllocByServiceRaw", "HeapAllocBySystemRaw",
                           "TotalAllocByServiceRaw", "TotalMemoryByOSRaw"}
      [] k = "network" -> {"NetworkIO.BytesReceived", "NetworkIO.BytesSent"}
      [] k = "disk"    -> {"DiskIO.ReadBytes", "DiskIO.WriteBytes"}

\* The fields of stats the caller assigns: before the launch and after the
\* join.
CallerFields == {"CoreStatistics", "Health"}

\* What a sub-collector assigns to its part of stats.
Collected(k, failed, r) ==
    CASE k = "load"    -> Term("GetLoadStatistics", r)
      [] k = "memory"  -> GetMemoryStatistics(failed, r)
      [] k = "cpu"     -> GetCPUStatistics(failed, r)
      [] k = "alloc"   -> [HeapAllocByServiceRaw |-> r]
      [] k = "network" -> GetNetworkIO(failed, r)
      [] k = "disk"    -> Term("GetDiskIO", r)

\* var stats models.ServiceStats: every part at its zero value.
Unset == <<"zero">>
ZeroStats == [k \in Collectors \cup {"core", "health"} |-> Unset]

\* ------------------------------------------------------- overall load
\* The loads handed to CalculateOverallLoad are whole percents; what it
\* returns is kept in tenths of a percent, so that the weights 0.5 are the
\* integers 5 and the weighted sum is exact.
CpuWeight == 5
MemWeight == 5
\* 100 percent, in tenths.
Hundred == 1000

\* The loads of the model, in percent: from below 0 to above 100.
LoadInputs == (0 - MaxOverload)..(100 + MaxOverload)

\* CalculateOverallLoad: the float64 it returns.
CalculateOverallLoad(serviceCPUF, serviceMemF) ==
    LET overallLoad == CpuWeight * serviceCPUF + MemWeight * serviceMemF
    IN  IF overallLoad > Hundred THEN Hundred ELSE overallLoad

\* ------------------------------------------------------------------ state
\* ------------------------------------------------------- time-series rows
\* The hostnames os.Hostname() may report, and its failure.
Hostnames == {"alpha", "beta"}
HostnameError == "os.Hostname: error"
HostnameOutcomes == Hostnames \cup {HostnameError}

\* The zero tstorage.Label.
NoLabel == [Name |-> "", Value |-> ""]

\* GetHostLabel, from the outcome of os.Hostname().
GetHostLabel(outcome) ==
    [Name |-> "host",
     Value |-> IF outcome = HostnameError THEN "unknown" ELSE outcome]

\* currentTime.Unix(): the whole seconds of a clock reading.
Unix(ticks) == ticks \div TicksPerSecond

\* The names a RawMemStatsRecords entry may carry, and the snapshots' lists of
\* them.
RawRecordNames == {"alloc", "heap_alloc"}
RawRecordLists ==
    UNION {[1..n -> RawRecordNames] : n \in 0..MaxRawRecords}

\* A tstorage.Row: the value is the snapshot field it is read from.
Row(metric, field, label, timestamp) ==
    [Metric |-> metric,
     DataPoint |-> [Timestamp |-> timestamp, Value |-> field],
     Labels |-> <<label>>]

generateCoreStatsRows(records, label, timestamp) ==
    <<Row("goroutines", "CoreStatistics.Goroutines", label, timestamp)>>

generateLoadStatsRows(records, label, timestamp) ==
    <<Row("overall_load_of_service",
          "LoadStatistics.OverallLoadOfServiceRaw", label, timestamp),
      Row("service_cpu_load",
          "LoadStatistics.ServiceCPULoadRaw", label, timestamp),
      Row("service_memory_load",
          "LoadStatistics.ServiceMemLoadRaw", label, timestamp),
      Row("system_cpu_load",
          "LoadStatistics.SystemCPULoadRaw", label, timestamp),
      Row("system_memory_load",
          "LoadStatistics.SystemMemLoadRaw", label, timestamp),
      Row("system_disk_load",
          "LoadStatistics.SystemDiskLoadRaw", label, timestamp)>>

generateCPUStatsRows(records, label, timestamp) ==
    <<Row("total_cores", "CPUStatistics.TotalCores", label, timestamp),
      Row("cores_used_by_service",
          "CPUStatistics.CoresUsedByService", label, timestamp),
      Row("cores_used_by_system",
          "CPUStatistics.CoresUsedBySystem", label, timestamp)>>

\* Memory rows whose service heap row carries the name of a raw record.
generateMemoryStatsRowsHeapAlloc(records, label, timestamp) ==
    [i \in 1..Len(records) |->
        Row(records[i], "record.RecordValue", label, timestamp)]
    \o <<Row("heap_alloc", "HeapAllocByServiceRaw", label, timestamp)>>

generateMemoryStatsRows(records, label, timestamp) ==
    <<Row("total_system_memory",
          "MemoryStatistics.TotalSystemMemoryRaw", label, timestamp),
      Row("memory_used_by_system",
          "MemoryStatistics.MemoryUsedBySystemRaw", label, timestamp),
      Row("memory_used_by_service",
          "MemoryStatistics.MemoryUsedByServiceRaw", label, timestamp),
      Row("available_memory",
          "MemoryStatistics.AvailableMemoryRaw", label, timestamp),
      Row("gc_pause_duration",
          "MemoryStatistics.GCPauseDurationRaw", label, timestamp),
      Row("stack_memory_usage",
          "MemoryStatistics.StackMemoryUsageRaw", label, timestamp)>>
    \o [i \in 1..Len(records) |->
           Row(records[i], "record.RecordValue", label, timestamp)]
    \o <<Row("heap_alloc_by_service",
             "HeapAllocByServiceRaw", label, timestamp),
         Row("heap_alloc_by_system",
             "HeapAllocBySystemRaw", label, timestamp),
         Row("total_alloc_by_service",
             "TotalAllocByServiceRaw", label, timestamp),
         Row("total_memory_by_os", "TotalMemoryByOSRaw", label, timestamp),
         Row("total_disk_size",
             "LoadStatistics.TotalDiskLoadRaw", label, timestamp)>>

generateNetworkIORows(records, label, timestamp) ==
    <<Row("bytes_sent", "NetworkIO.BytesSent", label, timestamp),
      Row("bytes_received", "NetworkIO.BytesReceived", label, timestamp)>>

generateHealthStatsRows(records, label, timestamp) ==
    <<Row("service_health_percent",
          "Health.ServiceHealth.Percent", label, timestamp),
      Row("system_health_percent",
          "Health.SystemHealth.Percent", label, timestamp)>>

\* The generators in the order StoreServiceMetrics calls them.
NumGenerators == 6
GeneratedRows(k, records, label, timestamp) ==
    CASE k = 1 -> generateCoreStatsRows(records, label, timestamp)
      [] k = 2 -> generateLoadStatsRows(records, label, timestamp)
      [] k = 3 -> generateCPUStatsRows(records, label, timestamp)
      [] k = 4 -> generateMemoryStatsRows(records, label, timestamp)
      [] k = 5 -> generateNetworkIORows(records, label, timestamp)
      [] k = 6 -> generateHealthStatsRows(records, label, timestamp)

\* ConstructRawMemStats: the names of the records, in order.
ConstructRawMemStats ==
    <<"alloc", "total_alloc", "sys", "lookups", "mallocs", "frees",
      "heap_alloc", "heap_sys", "heap_idle", "heap_inuse", "heap_released",
      "heap_objects", "stack_inuse", "stack_sys", "m_span_inuse",
      "m_span_sys", "m_cache_inuse", "m_cache_sys", "buck_hash_sys",
      "gc_sys", "other_sys", "next_gc", "last_gc", "pause_total_ns",
      "num_gc", "num_forced_gc", "gc_cpu_fraction">>

\* The rows of one snapshot whose raw memory records are those of
\* ConstructRawMemStats, in the order the generators emit them.
SnapshotRows(label, timestamp) ==
    generateCoreStatsRows(ConstructRawMemStats, label, timestamp)
    \o generateLoadStatsRows(ConstructRawMemStats, label, timestamp)
    \o generateCPUStatsRows(ConstructRawMemStats, label, timestamp)
    \o generateMemoryStatsRows(ConstructRawMemStats, label, timestamp)
    \o generateNetworkIORows(ConstructRawMemStats, label, timestamp)
    \o generateHealthStatsRows(ConstructRawMemStats, label, timestamp)

\* The metric names StoreServiceMetrics writes: the only names with points
\* in the storage.
AllMetricNames ==
    LET rows == SnapshotRows([Name |-> "host", Value |-> "alpha"], 0)
    IN  {rows[i].Metric : i \in 1..Len(rows)}

VARIABLES
    samplingRate,     \* samplingRate atomic.Int64
    rateArgs,         \* history: << >>, or <<a>> for the last SetSamplingRate(a)
    nRateCalls,       \* number of SetSamplingRate calls made so far
    callCounters,     \* callCounters map[string]uint64
    countersMu,       \* owner of countersMu
    functionMetrics,  \* functionMetrics map[string]*models.FunctionMetrics
    writers,          \* history: per record field, the call that wrote it last
    mu,               \* owner of mu
    clock,            \* the reading of time.Now()
    nCalls,           \* number of trace calls started so far
    pc,               \* per caller: position in the trace call
    loc,              \* per caller: the locals of the trace call
    log,              \* history: the sampling decisions taken so far
    openProfiles,     \* history: the calls whose CPU profile was started
    suspended,        \* per caller: the trace calls whose target is inside a trace call
                      \* and not handed to StopCPUProfile
    rpc,              \* per reader: position in FunctionTraceDetails
    snap,             \* per reader: the map FunctionTraceDetails returned
    snapWriters,      \* history: the writers of the records copied into snap
    snapAlias,        \* per reader: the keys of snap whose *FunctionMetrics is
                      \* the table's own record and not a copy
    gpc,              \* position of GetServiceStats
    cpc,              \* per sub-collector goroutine: its position
    wg,               \* the counter of the sync.WaitGroup
    failing,          \* the stat sources that fail during this call
    reading,          \* what a stat source that does not fail reports
    stats,            \* var stats models.ServiceStats
    healthInput,      \* history: the stats GetServiceHealth was handed
    spc,              \* position of StoreServiceMetrics
    sloc,             \* the locals of StoreServiceMetrics
    wall,             \* the wall clock, in ticks
    host,             \* what os.Hostname() reports now
    nStore,           \* number of StoreServiceMetrics calls started so far
    inserted,         \* history: the batches handed to sto.InsertRows
    ev                \* the last call of a pure function: its name, input, output

profilerVars ==
    <<samplingRate, rateArgs, nRateCalls, callCounters, countersMu,
      functionMetrics,
      writers, mu, clock, nCalls, pc, loc, log, openProfiles, suspended>>
readerVars == <<rpc, snap, snapWriters, snapAlias>>
serviceVars == <<gpc, cpc, wg, failing, reading, stats, healthInput>>
storeVars == <<spc, sloc, wall, host, nStore, inserted>>
pureVars == <<ev>>
vars == <<profilerVars, readerVars, serviceVars, storeVars, pureVars>>

\* The locals of StoreServiceMetrics before it starts.
InitStoreLoc ==
    [records |-> << >>, timestamp |-> 0, label |-> NoLabel, rows |-> << >>,
     next |-> 1, err |-> "none"]

\* The locals of a trace call before it starts.
InitLoc ==
    [api |-> "none", f |-> NotAFunc, args |-> << >>, verdict |-> "none",
     id |-> 0, name |-> EmptyString, tmp |-> 0, count |-> 0, rate |-> 0,
     shouldProfile |-> FALSE, initialGoroutines |-> 0, memStatsBefore |-> 0,
     cpuProfFilePath |-> EmptyString, memProfFilePath |-> EmptyString,
     failed |-> {}, start |-> 0, elapsed |-> 0, goroutinesAfter |-> 0,
     finalGoroutines |-> 0, memStatsAfter |-> 0, memoryUsage |-> 0,
     ran |-> 0, results |-> << >>, ret |-> Nil]

\* No pure function has been called.
NoCall == [fn |-> "none", in |-> << >>, done |-> FALSE, out |-> 0]

\* A call of pure function fn that is about to be evaluated on input in.
Pending(fn, in) == [fn |-> fn, in |-> in, done |-> FALSE, out |-> 0]

\* The package-level variables after init().
InitProgram ==
    /\ samplingRate = DefaultSamplingRate
    /\ rateArgs = << >>
    /\ nRateCalls = 0
    /\ callCounters = EmptyMap
    /\ countersMu = NoOwner
    /\ functionMetrics = EmptyMap
    /\ writers = EmptyMap
    /\ mu = NoOwner
    /\ clock = 0
    /\ nCalls = 0
    /\ pc = [c \in Callers |-> "idle"]
    /\ loc = [c \in Callers |-> InitLoc]
    /\ log = {}
    /\ openProfiles = {}
    /\ suspended = [c \in Callers |-> << >>]
    /\ rpc = [r \in Readers |-> "idle"]
    /\ snap = [r \in Readers |-> EmptyMap]
    /\ snapWriters = [r \in Readers |-> EmptyMap]
    /\ snapAlias = [r \in Readers |-> {}]
    /\ gpc = "idle"
    /\ cpc = [k \in Collectors |-> "unstarted"]
    /\ wg = 0
    /\ failing = {}
    /\ reading = 0
    /\ stats = ZeroStats
    /\ healthInput = Unset
    /\ spc = "idle"
    /\ sloc = InitStoreLoc
    /\ wall = 0
    /\ host = "alpha"
    /\ nStore = 0
    /\ inserted = << >>

Init == InitProgram /\ ev = NoCall

\* ------------------------------------------------------- SetSamplingRate
\* A clamp that lets a rate of 0 through.
ClampRateNegativeOnly(rate) == IF rate < 0 THEN 1 ELSE rate

\* if rate < 1 { rate = 1 }
ClampRate(rate) == IF rate < 1 THEN 1 ELSE rate

SetSamplingRate(rate) ==
    /\ samplingRate' = ClampRate(rate)
    /\ rateArgs' = <<rate>>
    /\ nRateCalls' = nRateCalls + 1
    /\ UNCHANGED <<callCounters, countersMu, functionMetrics, writers, mu,
                   clock, nCalls, pc, loc, log, openProfiles, suspended,
                   readerVars>>

\* ------------------------------------------------------ the trace entries
CanStart(c) ==
    /\ pc[c] = "idle"
    /\ nCalls < MaxCalls

\* TraceFunction(f): name the function, go on to executeFunctionWithProfiling.
TraceFunction(c, f) ==
    /\ CanStart(c)
    /\ nCalls' = nCalls + 1
    /\ loc' = [loc EXCEPT ![c] =
                  [InitLoc EXCEPT !.api = "TraceFunction", !.f = f,
                                  !.verdict = "ok", !.id = nCalls + 1,
                                  !.name = TraceFunctionName(f)]]
    /\ pc' = [pc EXCEPT ![c] = "lockCounters"]
    /\ UNCHANGED <<nRateCalls, suspended, openProfiles, samplingRate, rateArgs, callCounters, countersMu,
                   functionMetrics, writers, mu, clock, log, readerVars>>

\* A wrapper that logs a type mismatch and goes on with the call.
AfterValidationTypeLogged(verdict) ==
    CASE verdict \in {"ok", "type"} -> "lockCounters"
      [] verdict = "panic" -> "panicked"
      [] OTHER -> "returned"

\* Where a reflective wrapper goes after its validation.
AfterValidation(verdict) ==
    CASE verdict = "ok" -> "lockCounters"
      [] verdict = "panic" -> "panicked"
      [] OTHER -> "returned"

\* The validation that opens the reflective wrappers; a call that passes
\* goes on to executeFunctionWithProfiling under its generated name.
ReflectiveEntry(c, api, f, args) ==
    LET verdict == Validate(f, args) IN
    /\ CanStart(c)
    /\ nCalls' = nCalls + 1
    /\ loc' = [loc EXCEPT ![c] =
                  [InitLoc EXCEPT !.api = api, !.f = f, !.args = args,
                                  !.verdict = verdict, !.id = nCalls + 1,
                                  !.name = IF verdict = "ok"
                                           THEN generateFunctionName(f)
                                           ELSE EmptyString]]
    /\ pc' = [pc EXCEPT ![c] = AfterValidation(verdict)]
    /\ UNCHANGED <<nRateCalls, suspended, openProfiles, samplingRate, rateArgs, callCounters, countersMu,
                   functionMetrics, writers, mu, clock, log, readerVars>>

TraceFunctionWithArgs(c, f, args) ==
    ReflectiveEntry(c, "TraceFunctionWithArgs", f, args)

TraceFunctionWithReturns(c, f, args) ==
    ReflectiveEntry(c, "TraceFunctionWithReturns", f, args)

\* TraceFunctionWithReturn calls TraceFunctionWithReturns and keeps results[0].
TraceFunctionWithReturn(c, f, args) ==
    ReflectiveEntry(c, "TraceFunctionWithReturn", f, args)

\* --------------------------------------- executeFunctionWithProfiling
\* An increment that does not wait for countersMu.
LockCountersNoExclusion(c) ==
    /\ pc[c] = "lockCounters"
    /\ countersMu' = CallerOwner(c)
    /\ pc' = [pc EXCEPT ![c] = "incrLoad"]
    /\ UNCHANGED <<nRateCalls, suspended, openProfiles, samplingRate, rateArgs, callCounters, functionMetrics,
                   writers, mu, clock, nCalls, loc, log, readerVars>>

\* countersMu.Lock()
LockCounters(c) ==
    /\ pc[c] = "lockCounters"
    /\ countersMu = NoOwner
    /\ countersMu' = CallerOwner(c)
    /\ pc' = [pc EXCEPT ![c] = "incrLoad"]
    /\ UNCHANGED <<nRateCalls, suspended, openProfiles, samplingRate, rateArgs, callCounters, functionMetrics,
                   writers, mu, clock, nCalls, loc, log, readerVars>>

\* callCounters[name]++, the read half
IncrLoad(c) ==
    /\ pc[c] = "incrLoad"
    /\ loc' = [loc EXCEPT ![c].tmp = MapGet(callCounters, loc[c].name, 0)]
    /\ pc' = [pc EXCEPT ![c] = "incrStore"]
    /\ UNCHANGED <<nRateCalls, suspended, openProfiles, samplingRate, rateArgs, callCounters, countersMu,
                   functionMetrics, writers, mu, clock, nCalls, log, readerVars>>

\* callCounters[name]++, the write half
IncrStore(c) ==
    /\ pc[c] = "incrStore"
    /\ callCounters' = MapPut(callCounters, loc[c].name, loc[c].tmp + 1)
    /\ pc' = [pc EXCEPT ![c] = "readCount"]
    /\ UNCHANGED <<nRateCalls, suspended, openProfiles, samplingRate, rateArgs, countersMu, functionMetrics,
                   writers, mu, clock, nCalls, loc, log, readerVars>>

\* count := callCounters[name]
ReadCount(c) ==
    /\ pc[c] = "readCount"
    /\ loc' = [loc EXCEPT ![c].count = MapGet(callCounters, loc[c].name, 0)]
    /\ pc' = [pc EXCEPT ![c] = "unlockCounters"]
    /\ UNCHANGED <<nRateCalls, suspended, openProfiles, samplingRate, rateArgs, callCounters, countersMu,
                   functionMetrics, writers, mu, clock, nCalls, log, readerVars>>

\* An unlock deferred to the return of executeFunctionWithProfiling.
UnlockCountersDeferred(c) ==
    /\ pc[c] = "unlockCounters"
    /\ pc' = [pc EXCEPT ![c] = "decide"]
    /\ UNCHANGED <<nRateCalls, suspended, openProfiles, samplingRate, rateArgs, callCounters, countersMu,
                   functionMetrics, writers, mu, clock, nCalls, loc, log,
                   readerVars>>

\* countersMu.Unlock()
UnlockCounters(c) ==
    /\ pc[c] = "unlockCounters"
    /\ countersMu' = NoOwner
    /\ pc' = [pc EXCEPT ![c] = "decide"]
    /\ UNCHANGED <<nRateCalls, suspended, openProfiles, samplingRate, rateArgs, callCounters, functionMetrics,
                   writers, mu, clock, nCalls, loc, log, readerVars>>

\* A decision that profiles the first call of every window of rate calls.
ShouldProfileOffByOne(count, rate) ==
    IF rate >= 1 THEN (count - 1) % rate = 0 ELSE FALSE

\* count%uint64(rate) == 0. uint64 of a negative rate is at least 2^63,
\* above every count the counter reaches, so the remainder is count itself,
\* and count is at least 1 after the increment.
ShouldProfile(count, rate) ==
    IF rate >= 1 THEN count % rate = 0 ELSE FALSE

\* The profiling steps that can fail.
ProfileSetupSteps == {"MkdirAll", "StartCPUProfile"}
ProfileFinishSteps == {"WriteHeapProfile"}

\* A failure of os.MkdirAll that panics (log.Panicf) instead of being dropped.
FailureAbortsOnMkdirAll(step) == step = "MkdirAll"

\* Whether the failure of a profiling step aborts the trace call. os.MkdirAll
\* returns an error that is dropped; StartCPUProfile, StopCPUProfile and
\* WriteHeapProfile are helpers outside this file, which report a failure to
\* their caller (an error that is logged or dropped) and do not panic.
FailureAborts(step) == FALSE

\* From the sampling decision to the start of the timer:
\* shouldProfile := count%uint64(samplingRate.Load()) == 0 (a run-time panic
\* when the divisor is zero); initialGoroutines := runtime.NumGoroutine();
\* and if shouldProfile: runtime.ReadMemStats(&memStatsBefore), os.MkdirAll
\* (its error dropped), the two paths, StartCPUProfile (its error logged).
\* g and a are what runtime.NumGoroutine() and MemStats.Alloc report,
\* failures the profiling steps that fail.
Decide(c, g, a, failures) ==
    /\ pc[c] = "decide"
    /\ IF samplingRate = 0
       THEN /\ pc' = [pc EXCEPT ![c] = "panicked"]
            /\ loc' = [loc EXCEPT ![c].rate = samplingRate]
            /\ UNCHANGED <<log, openProfiles>>
       ELSE LET prof == ShouldProfile(loc[c].count, samplingRate) IN
            /\ loc' = [loc EXCEPT
                          ![c].rate = samplingRate,
                          ![c].shouldProfile = prof,
                          ![c].initialGoroutines = g,
                          ![c].memStatsBefore = IF prof THEN a ELSE 0,
                          ![c].failed = IF prof THEN failures ELSE {},
                          ![c].cpuProfFilePath =
                              IF prof THEN CpuProfFilePath(loc[c].name) ELSE EmptyString,
                          ![c].memProfFilePath =
                              IF prof THEN MemProfFilePath(loc[c].name) ELSE EmptyString]
            /\ log' = log \cup {[id |-> loc[c].id, name |-> loc[c].name,
                                 count |-> loc[c].count, rate |-> samplingRate,
                                 profiled |-> prof]}
            /\ openProfiles' =
                   IF prof /\ "StartCPUProfile" \notin failures
                   THEN openProfiles \cup {loc[c].id} ELSE openProfiles
            /\ pc' = [pc EXCEPT ![c] =
                         IF prof /\ \E step \in failures : FailureAborts(step)
                         THEN "panicked" ELSE "start"]
    /\ UNCHANGED <<nRateCalls, suspended, samplingRate, rateArgs, callCounters, countersMu,
                   functionMetrics, writers, mu, clock, nCalls, readerVars>>

\* What time.Now() can report: no reading is earlier than the one before it.
Readings == clock..MaxClock

\* start := time.Now(), which reports now
StartTimer(c, now) ==
    /\ pc[c] = "start"
    /\ now \in Readings
    /\ clock' = now
    /\ loc' = [loc EXCEPT ![c].start = now]
    /\ pc' = [pc EXCEPT ![c] = "run"]
    /\ UNCHANGED <<nRateCalls, suspended, openProfiles, samplingRate, rateArgs, callCounters, countersMu,
                   functionMetrics, writers, mu, nCalls, log, readerVars>>

\* The results slice the closure of TraceFunctionWithReturns fills; the
\* closures of TraceFunction and TraceFunctionWithArgs keep no result.
ResultsAfterRun(api, f) ==
    IF api \in {"TraceFunctionWithReturns", "TraceFunctionWithReturn"}
    THEN CaptureResults(TargetResults(f))
    ELSE << >>

\* fn(); elapsed := time.Since(start), with now the reading time.Since
\* takes. The reflective closures reach the target through
\* fnValue.Call(argValues), which can panic before it.
Run(c, now) ==
    /\ pc[c] = "run"
    /\ now \in Readings
    /\ IF loc[c].api # "TraceFunction" /\ CallPanics(loc[c].f, loc[c].args)
       THEN /\ pc' = [pc EXCEPT ![c] = "panicked"]
            /\ UNCHANGED <<loc, clock>>
       ELSE /\ clock' = now
            /\ loc' = [loc EXCEPT
                          ![c].ran = loc[c].ran + 1,
                          ![c].results = ResultsAfterRun(loc[c].api, loc[c].f),
                          ![c].elapsed = now - loc[c].start]
            /\ pc' = [pc EXCEPT ![c] = "measure"]
    /\ UNCHANGED <<nRateCalls, suspended, openProfiles, samplingRate, rateArgs, callCounters, countersMu,
                   functionMetrics, writers, mu, nCalls, log, readerVars>>

\* fn() panics: the panic leaves executeFunctionWithProfiling at once, no
\* statement after the call runs and nothing is deferred before it.
TargetPanics(c) ==
    /\ pc[c] = "run"
    /\ pc' = [pc EXCEPT ![c] = "panicked"]
    /\ UNCHANGED <<nRateCalls, suspended, openProfiles, samplingRate, rateArgs, callCounters,
                   countersMu, functionMetrics, writers, mu, clock, nCalls,
                   loc, log, readerVars>>

\* The caller recovers the panic that came out of the trace call and goes
\* on; it may call again.
Recover(c) ==
    /\ pc[c] = "panicked"
    /\ pc' = [pc EXCEPT ![c] = "idle"]
    /\ loc' = [loc EXCEPT ![c] = InitLoc]
    /\ UNCHANGED <<nRateCalls, suspended, openProfiles, samplingRate, rateArgs, callCounters,
                   countersMu, functionMetrics, writers, mu, clock, nCalls,
                   log, readerVars>>

\* The goroutine delta without its floor.
GoroutineDeltaUnclamped(now, initial) == now - initial

\* finalGoroutines := runtime.NumGoroutine() - initialGoroutines, floored at 0
GoroutineDelta(now, initial) ==
    IF now - initial < 0 THEN 0 ELSE now - initial

\* memoryUsage: memStatsAfter.Alloc - memStatsBefore.Alloc if that is not
\* negative, else the zero value memoryUsage was declared with.
MemoryDelta(after, before) ==
    IF after >= before THEN after - before ELSE 0

\* From the end of the target to the table update: if shouldProfile,
\* StopCPUProfile(cpuProfileFile) and WriteHeapProfile (its error dropped);
\* the goroutine delta; and if shouldProfile the memory delta. g and a are
\* what runtime.NumGoroutine() and MemStats.Alloc report now, failures the
\* profiling steps that fail.
Measure(c, g, a, failures) ==
    /\ pc[c] = "measure"
    /\ loc' = [loc EXCEPT
                  ![c].failed = IF loc[c].shouldProfile
                                THEN loc[c].failed \cup failures ELSE loc[c].failed,
                  ![c].goroutinesAfter = g,
                  ![c].memStatsAfter = IF loc[c].shouldProfile THEN a ELSE 0,
                  ![c].finalGoroutines = GoroutineDelta(g, loc[c].initialGoroutines),
                  ![c].memoryUsage =
                      IF loc[c].shouldProfile
                      THEN MemoryDelta(a, loc[c].memStatsBefore)
                      ELSE 0]
    /\ openProfiles' =
           IF loc[c].shouldProfile THEN openProfiles \ {loc[c].id}
           ELSE openProfiles
    /\ pc' = [pc EXCEPT ![c] =
                 IF loc[c].shouldProfile /\ \E step \in failures : FailureAborts(step)
                 THEN "panicked" ELSE "lockMetrics"]
    /\ UNCHANGED <<nRateCalls, suspended, samplingRate, rateArgs, callCounters, countersMu,
                   functionMetrics, writers, mu, clock, nCalls, log, readerVars>>

\* ------------------------------------------- the function-metrics table
\* A table update that takes mu while the counter lock is still held.
LockMetricsUnderCounters(c) ==
    /\ pc[c] = "lockMetrics"
    /\ mu = NoOwner
    /\ countersMu = NoOwner
    /\ mu' = CallerOwner(c)
    /\ countersMu' = CallerOwner(c)
    /\ pc' = [pc EXCEPT ![c] =
                 IF loc[c].name \in DOMAIN functionMetrics
                 THEN "setLastRanAt" ELSE "create"]
    /\ UNCHANGED <<nRateCalls, suspended, openProfiles, samplingRate, rateArgs,
                   callCounters, functionMetrics, writers, clock, nCalls,
                   loc, log, readerVars>>

\* mu.Lock(), and the lookup `m, exists := functionMetrics[name]`
LockMetrics(c) ==
    /\ pc[c] = "lockMetrics"
    /\ mu = NoOwner
    /\ mu' = CallerOwner(c)
    /\ pc' = [pc EXCEPT ![c] =
                 IF loc[c].name \in DOMAIN functionMetrics
                 THEN "setLastRanAt" ELSE "create"]
    /\ UNCHANGED <<nRateCalls, suspended, openProfiles, samplingRate, rateArgs, callCounters, countersMu,
                   functionMetrics, writers, clock, nCalls, loc, log, readerVars>>

\* One assignment m.<field> = value to the record of the caller's identity.
SetField(c, field, value, tag, next) ==
    /\ functionMetrics' =
           [functionMetrics EXCEPT ![loc[c].name] = [@ EXCEPT ![field] = value]]
    /\ writers' = [writers EXCEPT ![loc[c].name] = [@ EXCEPT ![tag] = loc[c].id]]
    /\ pc' = [pc EXCEPT ![c] = next]
    /\ UNCHANGED <<nRateCalls, suspended, openProfiles, samplingRate, rateArgs, callCounters, countersMu, mu,
                   clock, nCalls, loc, log, readerVars>>

\* m.FunctionLastRanAt = start
SetLastRanAt(c) ==
    /\ pc[c] = "setLastRanAt"
    /\ SetField(c, "FunctionLastRanAt", loc[c].start, "lastRanAt",
                "setExecutionTime")

\* m.ExecutionTime = elapsed
SetExecutionTime(c) ==
    /\ pc[c] = "setExecutionTime"
    /\ SetField(c, "ExecutionTime", loc[c].elapsed, "executionTime",
                "setGoroutineCount")

\* An update that assigns the memory delta and the paths on every call.
WritesProfileFieldsAlways(shouldProfile) == TRUE

\* The existing record's memory delta and paths are assigned only
\* `if shouldProfile`.
WritesProfileFields(shouldProfile) == shouldProfile

\* m.GoroutineCount = finalGoroutines
SetGoroutineCount(c) ==
    /\ pc[c] = "setGoroutineCount"
    /\ SetField(c, "GoroutineCount", loc[c].finalGoroutines, "goroutineCount",
                IF WritesProfileFields(loc[c].shouldProfile)
                THEN "setMemoryUsage" ELSE "unlockMetrics")

\* m.MemoryUsage = memoryUsage
SetMemoryUsage(c) ==
    /\ pc[c] = "setMemoryUsage"
    /\ SetField(c, "MemoryUsage", loc[c].memoryUsage, "memoryUsage",
                "setCPUProfileFilePath")

\* m.CPUProfileFilePath = cpuProfFilePath
SetCPUProfileFilePath(c) ==
    /\ pc[c] = "setCPUProfileFilePath"
    /\ SetField(c, "CPUProfileFilePath", loc[c].cpuProfFilePath, "cpuPath",
                "setMemProfileFilePath")

\* m.MemProfileFilePath = memProfFilePath
SetMemProfileFilePath(c) ==
    /\ pc[c] = "setMemProfileFilePath"
    /\ SetField(c, "MemProfileFilePath", loc[c].memProfFilePath, "memPath",
                "unlockMetrics")

\* A new record that names the two artifacts of its identity whether the
\* call was profiled or not.
NewFunctionMetricsWithPaths(l) ==
    [FunctionLastRanAt  |-> l.start,
     ExecutionTime      |-> l.elapsed,
     GoroutineCount     |-> l.finalGoroutines,
     MemoryUsage        |-> l.memoryUsage,
     CPUProfileFilePath |-> CpuProfFilePath(l.name),
     MemProfileFilePath |-> MemProfFilePath(l.name)]

\* The record the else branch builds from the call's locals.
NewFunctionMetrics(l) ==
    [FunctionLastRanAt  |-> l.start,
     ExecutionTime      |-> l.elapsed,
     GoroutineCount     |-> l.finalGoroutines,
     MemoryUsage        |-> l.memoryUsage,
     CPUProfileFilePath |-> l.cpuProfFilePath,
     MemProfileFilePath |-> l.memProfFilePath]

\* A creation that starts the table over with the new record alone.
CreateRecordAlone(c) ==
    /\ pc[c] = "create"
    /\ functionMetrics' = MapPut(EmptyMap, loc[c].name, NewFunctionMetrics(loc[c]))
    /\ writers' = MapPut(writers, loc[c].name,
                         LET p == IF loc[c].shouldProfile THEN loc[c].id ELSE 0 IN
                         [lastRanAt |-> loc[c].id, executionTime |-> loc[c].id,
                          goroutineCount |-> loc[c].id,
                          memoryUsage |-> p, cpuPath |-> p, memPath |-> p])
    /\ pc' = [pc EXCEPT ![c] = "unlockMetrics"]
    /\ UNCHANGED <<nRateCalls, suspended, openProfiles, samplingRate, rateArgs, callCounters, countersMu, mu,
                   clock, nCalls, loc, log, readerVars>>

\* functionMetrics[name] = &models.FunctionMetrics{...}
CreateRecord(c) ==
    /\ pc[c] = "create"
    /\ functionMetrics' = MapPut(functionMetrics, loc[c].name, NewFunctionMetrics(loc[c]))
    /\ writers' = MapPut(writers, loc[c].name,
                         LET p == IF loc[c].shouldProfile THEN loc[c].id ELSE 0 IN
                         [lastRanAt |-> loc[c].id, executionTime |-> loc[c].id,
                          goroutineCount |-> loc[c].id,
                          memoryUsage |-> p, cpuPath |-> p, memPath |-> p])
    /\ pc' = [pc EXCEPT ![c] = "unlockMetrics"]
    /\ UNCHANGED <<nRateCalls, suspended, openProfiles, samplingRate, rateArgs, callCounters, countersMu, mu,
                   clock, nCalls, loc, log, readerVars>>

\* What the trace function hands back once executeFunctionWithProfiling
\* has returned: the results slice, its first element or nil, or nothing.
ReturnValue(api, results) ==
    CASE api = "TraceFunctionWithReturns" -> results
      [] api = "TraceFunctionWithReturn" ->
             IF Len(results) > 0 THEN results[1] ELSE Nil
      [] OTHER -> Nil

\* What is left of a call once it has returned: the call and its outcome;
\* the frame of executeFunctionWithProfiling is gone.
Returned(l) ==
    [InitLoc EXCEPT !.api = l.api, !.f = l.f, !.args = l.args,
                    !.verdict = l.verdict, !.id = l.id, !.name = l.name,
                    !.shouldProfile = l.shouldProfile, !.failed = l.failed,
                    !.ran = l.ran, !.results = l.results,
                    !.ret = ReturnValue(l.api, l.results)]

\* The deferred mu.Unlock(), and the return of the trace function.
UnlockMetrics(c) ==
    /\ pc[c] = "unlockMetrics"
    /\ mu' = NoOwner
    /\ loc' = [loc EXCEPT ![c] = Returned(loc[c])]
    /\ pc' = [pc EXCEPT ![c] = "returned"]
    /\ UNCHANGED <<nRateCalls, suspended, openProfiles, samplingRate, rateArgs, callCounters, countersMu,
                   functionMetrics, writers, clock, nCalls, log, readerVars>>

\* The caller goes on after the trace call has returned; it may call again.
ReturnToCaller(c) ==
    /\ pc[c] = "returned"
    /\ pc' = [pc EXCEPT ![c] = "idle"]
    /\ loc' = [loc EXCEPT ![c] = InitLoc]
    /\ UNCHANGED <<nRateCalls, suspended, openProfiles, samplingRate, rateArgs, callCounters, countersMu,
                   functionMetrics, writers, mu, clock, nCalls, log,
                   readerVars>>

\* ------------------------------------------------- FunctionTraceDetails
\* A read that does not wait for mu.
FunctionTraceDetailsNoLock(r) ==
    /\ rpc[r] = "idle"
    /\ rpc' = [rpc EXCEPT ![r] = "copy"]
    /\ UNCHANGED <<nRateCalls, suspended, openProfiles, samplingRate, rateArgs, callCounters, countersMu,
                   functionMetrics, writers, mu, clock, nCalls, pc, loc, log,
                   snap, snapWriters, snapAlias>>

\* mu.Lock()
FunctionTraceDetailsLock(r) ==
    /\ rpc[r] = "idle"
    /\ mu = NoOwner
    /\ mu' = ReaderOwner(r)
    /\ rpc' = [rpc EXCEPT ![r] = "copy"]
    /\ UNCHANGED <<nRateCalls, suspended, openProfiles, samplingRate, rateArgs, callCounters, countersMu,
                   functionMetrics, writers, clock, nCalls, pc, loc, log,
                   snap, snapWriters, snapAlias>>

\* A copy of the map that keeps the table's pointers: result[k] = v.
FunctionTraceDetailsCopyShallow(r) ==
    /\ rpc[r] = "copy"
    /\ snap' = [snap EXCEPT ![r] = [k \in DOMAIN functionMetrics |-> functionMetrics[k]]]
    /\ snapWriters' = [snapWriters EXCEPT ![r] = [k \in DOMAIN writers |-> writers[k]]]
    /\ snapAlias' = [snapAlias EXCEPT ![r] = DOMAIN functionMetrics]
    /\ rpc' = [rpc EXCEPT ![r] = "unlock"]
    /\ UNCHANGED <<profilerVars>>

\* result := make(map...); result[k] = &copied, with copied := *v, for every
\* k, v of the table: a new map of new records.
FunctionTraceDetailsCopy(r) ==
    /\ rpc[r] = "copy"
    /\ snap' = [snap EXCEPT ![r] = [k \in DOMAIN functionMetrics |-> functionMetrics[k]]]
    /\ snapWriters' = [snapWriters EXCEPT ![r] = [k \in DOMAIN writers |-> writers[k]]]
    /\ snapAlias' = [snapAlias EXCEPT ![r] = {}]
    /\ rpc' = [rpc EXCEPT ![r] = "unlock"]
    /\ UNCHANGED <<profilerVars>>

\* The deferred mu.Unlock(), and the return of result.
FunctionTraceDetailsReturn(r) ==
    /\ rpc[r] = "unlock"
    /\ mu' = IF mu = ReaderOwner(r) THEN NoOwner ELSE mu
    /\ rpc' = [rpc EXCEPT ![r] = "idle"]
    /\ UNCHANGED <<nRateCalls, suspended, openProfiles, samplingRate, rateArgs, callCounters, countersMu,
                   functionMetrics, writers, clock, nCalls, pc, loc, log,
                   snap, snapWriters, snapAlias>>

\* ----------------------------------- the caller's use of a returned map
\* What reader r sees through the map S it was handed: S[k] is a pointer,
\* to a record of its own or to the table's record.
View(r) ==
    [k \in DOMAIN snap[r] |->
        IF k \in snapAlias[r] /\ k \in DOMAIN functionMetrics
        THEN functionMetrics[k] ELSE snap[r][k]]

\* The holder of S assigns S[k].GoroutineCount = v.
MutateSnapshotRecord(r, k, v) ==
    /\ rpc[r] = "idle"
    /\ k \in DOMAIN snap[r]
    /\ IF k \in snapAlias[r] /\ k \in DOMAIN functionMetrics
       THEN /\ functionMetrics' = [functionMetrics EXCEPT ![k].GoroutineCount = v]
            /\ UNCHANGED snap
       ELSE /\ snap' = [snap EXCEPT ![r][k].GoroutineCount = v]
            /\ UNCHANGED functionMetrics
    /\ UNCHANGED <<nRateCalls, suspended, openProfiles, samplingRate, rateArgs, callCounters, countersMu, writers,
                   mu, clock, nCalls, pc, loc, log, rpc, snapWriters, snapAlias>>

\* The holder of S does delete(S, k); S is a map of its own.
DeleteFromSnapshot(r, k) ==
    /\ rpc[r] = "idle"
    /\ k \in DOMAIN snap[r]
    /\ snap' = [snap EXCEPT ![r] = [x \in (DOMAIN snap[r]) \ {k} |-> snap[r][x]]]
    /\ snapWriters' = [snapWriters EXCEPT ![r] =
                           [x \in (DOMAIN snapWriters[r]) \ {k} |-> snapWriters[r][x]]]
    /\ snapAlias' = [snapAlias EXCEPT ![r] = @ \ {k}]
    /\ UNCHANGED <<profilerVars, rpc>>

\* --------------------------------------------------------- GetServiceStats
\* var stats; stats.CoreStatistics = GetCoreStatistics(); wg.Add(6); and the
\* six go statements. failed are the sources that fail during this call, r
\* what the others report.
GetServiceStats(failed, r) ==
    /\ gpc = "idle"
    /\ failing' = failed
    /\ reading' = r
    /\ stats' = [ZeroStats EXCEPT !["core"] = Term("GetCoreStatistics", r)]
    /\ wg' = NumCollectors
    /\ cpc' = [k \in Collectors |-> "running"]
    /\ gpc' = "wait"
    /\ UNCHANGED <<healthInput, profilerVars, readerVars>>

\* Sub-collectors of which the disk one assigns what it read to the two
\* fields of the network one.
CollectIntoNetworkIO(k) ==
    /\ cpc[k] = "running"
    /\ stats' = IF k = "disk"
                THEN [stats EXCEPT !["network"] =
                          [BytesReceived |-> reading, BytesSent |-> reading]]
                ELSE [stats EXCEPT ![k] = Collected(k, failing, reading)]
    /\ cpc' = [cpc EXCEPT ![k] = "written"]
    /\ UNCHANGED <<gpc, wg, failing, reading, healthInput, profilerVars, readerVars>>

\* The body of sub-collector k's goroutine: the assignment to its part.
Collect(k) ==
    /\ cpc[k] = "running"
    /\ stats' = [stats EXCEPT ![k] = Collected(k, failing, reading)]
    /\ cpc' = [cpc EXCEPT ![k] = "written"]
    /\ UNCHANGED <<gpc, wg, failing, reading, healthInput, profilerVars, readerVars>>

\* defer wg.Done()
CollectorDone(k) ==
    /\ cpc[k] = "written"
    /\ wg' = wg - 1
    /\ cpc' = [cpc EXCEPT ![k] = "done"]
    /\ UNCHANGED <<gpc, failing, reading, stats, healthInput, profilerVars, readerVars>>

\* A wait that returns whatever the counter is.
WaitGroupWaitNoJoin ==
    /\ gpc = "wait"
    /\ gpc' = "health"
    /\ UNCHANGED <<cpc, wg, failing, reading, stats, healthInput, profilerVars,
                   readerVars>>

\* wg.Wait()
WaitGroupWait ==
    /\ gpc = "wait"
    /\ wg = 0
    /\ gpc' = "health"
    /\ UNCHANGED <<cpc, wg, failing, reading, stats, healthInput, profilerVars,
                   readerVars>>

\* stats.Health = GetServiceHealth(&stats); return stats
ComputeHealth ==
    /\ gpc = "health"
    /\ healthInput' = stats
    /\ stats' = [stats EXCEPT !["health"] = Term("GetServiceHealth", stats)]
    /\ gpc' = "returned"
    /\ UNCHANGED <<cpc, wg, failing, reading, profilerVars, readerVars>>

\* ---------------------------------------------------------- specification
\* The steps of executeFunctionWithProfiling that read nothing from the
\* environment.
Step(c) ==
    \/ LockCounters(c)
    \/ IncrLoad(c)
    \/ IncrStore(c)
    \/ ReadCount(c)
    \/ UnlockCounters(c)
    \/ LockMetrics(c)
    \/ SetLastRanAt(c)
    \/ SetExecutionTime(c)
    \/ SetGoroutineCount(c)
    \/ SetMemoryUsage(c)
    \/ SetCPUProfileFilePath(c)
    \/ SetMemProfileFilePath(c)
    \/ CreateRecord(c)
    \/ UnlockMetrics(c)
    \/ ReturnToCaller(c)

FunctionTraceDetails(r) ==
    \/ FunctionTraceDetailsLock(r)
    \/ FunctionTraceDetailsCopy(r)
    \/ FunctionTraceDetailsReturn(r)

\* A goroutine may call SetSamplingRate at any moment, before, between and
\* during the trace calls of the others.
CanSetRate == nRateCalls < MaxRateCalls

\* Concurrent callers tracing one func() value while the rate is set; the host is quiet (steady goroutine count and heap, no profiling
\* failure, and a clock that stands still).
Next ==
    /\ UNCHANGED <<serviceVars, storeVars, pureVars>>
    /\ \/ \E rate \in 1..MaxRateArg : CanSetRate /\ SetSamplingRate(rate)
       \/ \E c \in Callers : TraceFunction(c, FuncNoArgs)
       \/ \E c \in Callers : Step(c)
       \/ \E c \in Callers : Decide(c, 1, 0, {})
       \/ \E c \in Callers : StartTimer(c, clock)
       \/ \E c \in Callers : Run(c, clock)
       \/ \E c \in Callers : Measure(c, 1, 0, {})

Spec == Init /\ [][Next]_vars

\* fn() is a target that itself calls TraceFunction(f): the frame of the
\* outer call waits inside fn() while the inner call runs on its goroutine.
TargetCallsTrace(c, f) ==
    /\ pc[c] = "run"
    /\ Len(suspended[c]) < MaxDepth
    /\ nCalls < MaxLiveCalls
    /\ nCalls' = nCalls + 1
    /\ suspended' = [suspended EXCEPT ![c] = <<loc[c]>> \o suspended[c]]
    /\ loc' = [loc EXCEPT ![c] =
                  [InitLoc EXCEPT !.api = "TraceFunction", !.f = f,
                                  !.verdict = "ok", !.id = nCalls + 1,
                                  !.name = TraceFunctionName(f)]]
    /\ pc' = [pc EXCEPT ![c] = "lockCounters"]
    /\ UNCHANGED <<nRateCalls, openProfiles, samplingRate, rateArgs, callCounters,
                   countersMu, functionMetrics, writers, mu, clock, log,
                   readerVars>>

\* The inner trace call returns into the target of the outer one, which
\* goes on running.
NestedReturns(c) ==
    /\ pc[c] = "returned"
    /\ suspended[c] # << >>
    /\ loc' = [loc EXCEPT ![c] = Head(suspended[c])]
    /\ suspended' = [suspended EXCEPT ![c] = Tail(suspended[c])]
    /\ pc' = [pc EXCEPT ![c] = "run"]
    /\ UNCHANGED <<nRateCalls, openProfiles, samplingRate, rateArgs, callCounters,
                   countersMu, functionMetrics, writers, mu, clock, nCalls,
                   log, readerVars>>

\* The steps a goroutine inside a trace call takes by itself: every
\* statement of executeFunctionWithProfiling, its target included, which
\* terminates.
CallerStep(c) ==
    \/ pc[c] # "returned" /\ Step(c)
    \/ Decide(c, 1, 0, {})
    \/ StartTimer(c, clock)
    \/ Run(c, clock)
    \/ Measure(c, 1, 0, {})
    \/ NestedReturns(c)
    \/ suspended[c] = << >> /\ ReturnToCaller(c)

\* Concurrent callers tracing a func() value whose body may call
\* TraceFunction on itself again, while the table is read. The goroutines
\* are interchangeable: a new call is made by the first one that is free.
NextLive ==
    /\ UNCHANGED <<serviceVars, storeVars, pureVars>>
    /\ \/ \E rate \in 1..MaxRateArg : CanSetRate /\ SetSamplingRate(rate)
       \/ \E c \in Callers :
              /\ nCalls < MaxLiveCalls
              /\ \A d \in Callers : d < c => pc[d] # "idle"
              /\ TraceFunction(c, FuncNoArgs)
       \/ \E c \in Callers : TargetCallsTrace(c, FuncNoArgs)
       \/ \E c \in Callers : CallerStep(c)
       \/ \E r \in Readers : FunctionTraceDetails(r)

\* What the profiler's goroutines read and write.
liveVars == <<profilerVars, readerVars>>

\* The scheduler runs every goroutine that can take a step, and a
\* sync.Mutex that is free again and again is handed to a goroutine that
\* waits for it (a waiter that has waited for 1ms gets the mutex next).
FairScheduling ==
    /\ \A c \in Callers :
           /\ WF_liveVars(CallerStep(c))
           /\ SF_liveVars(LockCounters(c))
           /\ SF_liveVars(LockMetrics(c))
    /\ \A r \in Readers :
           WF_liveVars(FunctionTraceDetailsCopy(r) \/ FunctionTraceDetailsReturn(r))

SpecLive == Init /\ [][NextLive]_vars /\ FairScheduling

\* Concurrent callers tracing one func() value while the clock runs.
NextOverlap ==
    /\ UNCHANGED <<serviceVars, storeVars, pureVars>>
    /\ \/ \E rate \in 1..MaxRateArg : CanSetRate /\ SetSamplingRate(rate)
       \/ \E c \in Callers :
              nCalls < MaxLiveCalls /\ TraceFunction(c, FuncNoArgs)
       \/ \E c \in Callers : Step(c)
       \/ \E c \in Callers : Decide(c, 1, 0, {})
       \/ \E c \in Callers, now \in Readings : StartTimer(c, now)
       \/ \E c \in Callers, now \in Readings : Run(c, now)
       \/ \E c \in Callers : Measure(c, 1, 0, {})

SpecOverlap == Init /\ [][NextOverlap]_vars

\* Concurrent callers tracing one func() value while the table is read.
NextRead ==
    /\ UNCHANGED <<serviceVars, storeVars, pureVars>>
    /\ \/ \E rate \in 1..MaxRateArg : CanSetRate /\ SetSamplingRate(rate)
       \/ \E c \in Callers : nCalls < MaxReadCalls /\ TraceFunction(c, FuncNoArgs)
       \/ \E c \in Callers : Step(c)
       \/ \E c \in Callers : Decide(c, 1, 0, {})
       \/ \E c \in Callers : StartTimer(c, clock)
       \/ \E c \in Callers : Run(c, clock)
       \/ \E c \in Callers : Measure(c, 1, 0, {})
       \/ \E r \in Readers : FunctionTraceDetails(r)

SpecRead == Init /\ [][NextRead]_vars

\* One caller tracing one func() value on a host whose goroutine count,
\* heap and clock move freely, while the sampling rate is set to any value.
NextHost ==
    /\ UNCHANGED <<serviceVars, storeVars, pureVars>>
    /\ \/ \E rate \in RateArgs :
              nRateCalls < MaxHostRateCalls /\ SetSamplingRate(rate)
       \/ nCalls < MaxHostCalls /\ TraceFunction(1, FuncNoArgs)
       \/ Step(1)
       \/ \E g \in 1..MaxGoroutines, a \in 0..MaxAlloc : Decide(1, g, a, {})
       \/ \E now \in Readings : StartTimer(1, now)
       \/ \E now \in Readings : Run(1, now)
       \/ \E g \in 1..MaxGoroutines, a \in 0..MaxAlloc : Measure(1, g, a, {})

SpecHost == Init /\ [][NextHost]_vars

\* One caller using the reflective wrappers with every callable and every
\* argument list of the model, on a host with a steady goroutine count, heap
\* and clock, on which any of the profiling steps may fail.
CanStartReflect == pc[1] = "idle" /\ nCalls < MaxReflectCalls

NextReflect ==
    /\ UNCHANGED <<serviceVars, storeVars, pureVars>>
    /\ \/ \E rate \in 1..MaxRateArg : CanSetRate /\ SetSamplingRate(rate)
       \/ CanStartReflect /\ \E f \in Thunks : TraceFunction(1, f)
       \/ CanStartReflect /\ \E f \in Callables, args \in ArgLists :
                                 TraceFunctionWithArgs(1, f, args)
       \/ CanStartReflect /\ \E f \in Callables, args \in ArgLists :
                                 TraceFunctionWithReturns(1, f, args)
       \/ CanStartReflect /\ \E f \in Callables, args \in ArgLists :
                                 TraceFunctionWithReturn(1, f, args)
       \/ Step(1)
       \/ \E failures \in SUBSET ProfileSetupSteps : Decide(1, 1, 0, failures)
       \/ StartTimer(1, clock)
       \/ Run(1, clock)
       \/ \E failures \in SUBSET ProfileFinishSteps : Measure(1, 1, 0, failures)

SpecReflect == Init /\ [][NextReflect]_vars

\* One caller tracing one func() value while the rate is set, on a
\* host whose goroutine count and clock move and on which any of the
\* profiling steps of a sampled invocation may fail.
NextFail ==
    /\ UNCHANGED <<serviceVars, storeVars, pureVars>>
    /\ \/ \E rate \in 1..MaxRateArg : CanSetRate /\ SetSamplingRate(rate)
       \/ nCalls < MaxFailCalls /\ TraceFunction(1, FuncNoArgs)
       \/ Step(1)
       \/ \E g \in 1..MaxGoroutines, failures \in SUBSET ProfileSetupSteps :
              Decide(1, g, 0, failures)
       \/ \E now \in Readings : StartTimer(1, now)
       \/ \E now \in Readings : Run(1, now)
       \/ \E g \in 1..MaxGoroutines, failures \in SUBSET ProfileFinishSteps :
              Measure(1, g, 0, failures)

SpecFail == Init /\ [][NextFail]_vars

\* One caller tracing func() values that may panic while the rate is set,
\* on a quiet host on which StartCPUProfile may fail; the caller
\* recovers the panics.
NextPanic ==
    /\ UNCHANGED <<serviceVars, storeVars, pureVars>>
    /\ \/ \E rate \in 1..MaxRateArg : CanSetRate /\ SetSamplingRate(rate)
       \/ \E f \in Thunks : nCalls < MaxCalls /\ pc[1] = "idle" /\ TraceFunction(1, f)
       \/ Step(1)
       \/ \E failures \in SUBSET {"StartCPUProfile"} : Decide(1, 1, 0, failures)
       \/ StartTimer(1, clock)
       \/ Run(1, clock)
       \/ TargetPanics(1)
       \/ Recover(1)
       \/ Measure(1, 1, 0, {})

SpecPanic == Init /\ [][NextPanic]_vars

\* One caller tracing func() values while a second goroutine takes snapshots
\* of the table and writes to the maps and records it was handed.
NextSnap ==
    /\ UNCHANGED <<serviceVars, storeVars, pureVars>>
    /\ \/ \E rate \in 1..MaxRateArg : CanSetRate /\ SetSamplingRate(rate)
       \/ nCalls < MaxSnapCalls /\ \E f \in Thunks : TraceFunction(1, f)
       \/ Step(1)
       \/ Decide(1, 1, 0, {})
       \/ \E now \in Readings : StartTimer(1, now)
       \/ Run(1, clock)
       \/ Measure(1, 1, 0, {})
       \/ \E r \in Readers : FunctionTraceDetails(r)
       \/ \E r \in Readers, f \in Thunks, v \in 0..MaxGoroutines :
              MutateSnapshotRecord(r, TraceFunctionName(f), v)
       \/ \E r \in Readers, f \in Thunks : DeleteFromSnapshot(r, TraceFunctionName(f))

SpecSnap == Init /\ [][NextSnap]_vars

\* One GetServiceStats call, with any subset of the stat sources failing.
NextService ==
    /\ UNCHANGED <<storeVars, pureVars>>
    /\ \/ \E failed \in SUBSET FailableSources, r \in 1..MaxReading :
              GetServiceStats(failed, r)
       \/ \E k \in Collectors : Collect(k)
       \/ \E k \in Collectors : CollectorDone(k)
       \/ WaitGroupWait
       \/ ComputeHealth

SpecService == Init /\ [][NextService]_vars

\* ------------------------------------------------- StoreServiceMetrics
\* The wall clock advances.
Tick ==
    /\ wall < MaxWall
    /\ wall' = wall + 1
    /\ UNCHANGED <<spc, sloc, host, nStore, inserted>>

\* The machine is renamed, or os.Hostname() starts or stops failing.
Rename(outcome) ==
    /\ outcome # host
    /\ host' = outcome
    /\ UNCHANGED <<spc, sloc, wall, nStore, inserted>>

\* StoreServiceMetrics is called with a snapshot.
StoreServiceMetrics(records) ==
    /\ spc \in {"idle", "returned"}
    /\ nStore < MaxStoreCalls
    /\ nStore' = nStore + 1
    /\ sloc' = [InitStoreLoc EXCEPT !.records = records]
    /\ spc' = "storage"
    /\ UNCHANGED <<wall, host, inserted>>

\* sto, err := GetStorageInstance()
GetStorageInstance(ok) ==
    /\ spc = "storage"
    /\ IF ok
       THEN spc' = "location" /\ UNCHANGED sloc
       ELSE /\ spc' = "returned"
            /\ sloc' = [sloc EXCEPT !.err = "error getting storage instance"]
    /\ UNCHANGED <<wall, host, nStore, inserted>>

\* location, err := time.LoadLocation("Local")
LoadLocation(ok) ==
    /\ spc = "location"
    /\ IF ok
       THEN spc' = "stamp" /\ UNCHANGED sloc
       ELSE /\ spc' = "returned"
            /\ sloc' = [sloc EXCEPT !.err = "error loading location"]
    /\ UNCHANGED <<wall, host, nStore, inserted>>

\* currentTime := time.Now().In(location); timestamp := currentTime.Unix()
TakeTimestamp ==
    /\ spc = "stamp"
    /\ sloc' = [sloc EXCEPT !.timestamp = Unix(wall)]
    /\ spc' = "label"
    /\ UNCHANGED <<wall, host, nStore, inserted>>

\* label := GetHostLabel()
TakeLabel ==
    /\ spc = "label"
    /\ sloc' = [sloc EXCEPT !.label = GetHostLabel(host)]
    /\ spc' = "generate"
    /\ UNCHANGED <<wall, host, nStore, inserted>>

\* The next generator's rows, stamped and labelled as given, are appended.
GenerateWith(k, label, timestamp) ==
    /\ spc = "generate"
    /\ sloc.next = k
    /\ sloc' = [sloc EXCEPT
                   !.rows = @ \o GeneratedRows(k, sloc.records, label,
                                               timestamp),
                   !.next = k + 1]
    /\ spc' = IF k = NumGenerators THEN "insert" ELSE "generate"
    /\ UNCHANGED <<wall, host, nStore, inserted>>

\* A generator that reads the clock itself.
GenerateStampingAnew(k) == GenerateWith(k, sloc.label, Unix(wall))

\* rows = append(rows, generate...Rows(serviceMetrics, label, timestamp)...)
Generate(k) == GenerateWith(k, sloc.label, sloc.timestamp)

\* if err := sto.InsertRows(rows); err != nil { return ... }; return nil
InsertRows(ok) ==
    /\ spc = "insert"
    /\ inserted' = Append(inserted,
                          [call |-> nStore, rows |-> sloc.rows, ok |-> ok])
    /\ sloc' = [sloc EXCEPT
                   !.err = IF ok THEN "nil"
                           ELSE "error storing service metrics"]
    /\ spc' = "returned"
    /\ UNCHANGED <<wall, host, nStore>>

NextStore ==
    /\ UNCHANGED <<profilerVars, readerVars, serviceVars, pureVars>>
    /\ \/ Tick
       \/ \E outcome \in HostnameOutcomes : Rename(outcome)
       \/ \E records \in RawRecordLists : StoreServiceMetrics(records)
       \/ \E ok \in BOOLEAN : GetStorageInstance(ok)
       \/ \E ok \in BOOLEAN : LoadLocation(ok)
       \/ TakeTimestamp
       \/ TakeLabel
       \/ \E k \in 1..NumGenerators : Generate(k)
       \/ \E ok \in BOOLEAN : InsertRows(ok)

SpecStore == Init /\ [][NextStore]_vars

\* A call of CalculateOverallLoad with any pair of loads of the model.
InitLoad ==
    /\ InitProgram
    /\ ev \in {Pending("CalculateOverallLoad", <<cpu, mem>>) :
                   cpu \in LoadInputs, mem \in LoadInputs}

\* The call returns.
NextLoad ==
    /\ ev.fn = "CalculateOverallLoad"
    /\ ~ev.done
    /\ ev' = [ev EXCEPT !.done = TRUE,
                        !.out = CalculateOverallLoad(ev.in[1], ev.in[2])]
    /\ UNCHANGED <<profilerVars, readerVars, serviceVars, storeVars>>

SpecLoad == InitLoad /\ [][NextLoad]_vars

\* ------------------------------------------------------------ health
\* Health scores are in tenths of a percent.
Scores == {5 * h : h \in 0..(2 * MaxScore)}

\* getStatusMessage: the first threshold the score reaches.
getStatusMessage(healthScore) ==
    IF healthScore >= 900 THEN
        "[Excellent] Service health is optimal. All systems are operating within normal parameters."
    ELSE IF healthScore >= 850 THEN
        "[Good] Service health is performing well with minor optimizations recommended."
    ELSE IF healthScore >= 700 THEN
        "[Satisfactory] Service health is stable with room for performance improvements."
    ELSE IF healthScore >= 500 THEN
        "[Fair] Service health is functional but requires attention to resource utilization."
    ELSE IF healthScore >= 300 THEN
        "[Poor] Service health is degraded. Immediate investigation and remediation required."
    ELSE
        "[Critical] Service health is severely compromised. Urgent intervention necessary."

\* A Healthy flag that is also true at exactly 50.
HealthyFromFifty(percent) == percent >= 500

\* The Healthy flag of a models.Health: Percent > 50.
Healthy(percent) == percent > 500

\* The models.Health built from a score.
Health(percent) ==
    [Percent |-> percent,
     Healthy |-> Healthy(percent),
     Message |-> getStatusMessage(percent)]

\* The models.Health of both scores when CalculateHealthScore failed.
ErrorHealth ==
    [Percent |-> 0,
     Healthy |-> FALSE,
     Message |-> "Error: Unable to calculate health score. Please check system configuration."]

\* GetServiceHealth, from what CalculateHealthScore returned: an error, or
\* the service score and the system score.
GetServiceHealth(err, servicePercentage, systemPercentage) ==
    IF err
    THEN [SystemHealth |-> ErrorHealth, ServiceHealth |-> ErrorHealth]
    ELSE [ServiceHealth |-> Health(servicePercentage),
          SystemHealth |-> Health(systemPercentage)]

\* A call of GetServiceHealth with any outcome of CalculateHealthScore.
InitHealth ==
    /\ InitProgram
    /\ ev \in {Pending("GetServiceHealth", <<err, service, system>>) :
                   err \in BOOLEAN, service \in Scores, system \in Scores}

\* The call returns.
NextHealth ==
    /\ ev.fn = "GetServiceHealth"
    /\ ~ev.done
    /\ ev' = [ev EXCEPT !.done = TRUE,
                        !.out = GetServiceHealth(ev.in[1], ev.in[2], ev.in[3])]
    /\ UNCHANGED <<profilerVars, readerVars, serviceVars, storeVars>>

SpecHealth == InitHealth /\ [][NextHealth]_vars

\* ------------------------------------------------------------ queries
\* var NameMap: the display names of some raw memory records.
NameMap ==
    [f \in {"heap_alloc", "heap_sys", "heap_inuse", "heap_idle",
            "heap_released", "stack_inuse", "stack_sys", "pause_total_ns",
            "num_gc", "gc_cpu_fraction", "m_span_inuse", "m_span_sys",
            "m_cache_inuse", "m_cache_sys", "buck_hash_sys", "gc_sys",
            "other_sys"} |->
        CASE f = "heap_alloc" -> "HeapAlloc"
          [] f = "heap_sys" -> "HeapSys"
          [] f = "heap_inuse" -> "HeapInuse"
          [] f = "heap_idle" -> "HeapIdle"
          [] f = "heap_released" -> "HeapReleased"
          [] f = "stack_inuse" -> "StackInuse"
          [] f = "stack_sys" -> "StackSys"
          [] f = "pause_total_ns" -> "PauseTotalNs"
          [] f = "num_gc" -> "NumGC"
          [] f = "gc_cpu_fraction" -> "GCCPUFraction"
          [] f = "m_span_inuse" -> "MSpanInuse"
          [] f = "m_span_sys" -> "MSpanSys"
          [] f = "m_cache_inuse" -> "MCacheInuse"
          [] f = "m_cache_sys" -> "MCacheSys"
          [] f = "buck_hash_sys" -> "BuckHashSys"
          [] f = "gc_sys" -> "GCSys"
          [] f = "other_sys" -> "OtherSys"]

\* A key that is the field name, whatever NameMap holds.
KeyUnaliased(fieldName) == fieldName

\* The key a field's value is stored under in a row.
Key(fieldName) ==
    IF fieldName \in DOMAIN NameMap THEN NameMap[fieldName] ELSE fieldName

\* The metrics of the model that StoreServiceMetrics writes, and the field
\* names a request may list: those and a name no metric carries.
StoredMetrics == {"heap_alloc", "goroutines"}
QueryFields == StoredMetrics \cup {"HeapAlloc"}
FieldLists == UNION {[1..n -> QueryFields] : n \in 0..MaxFields}

\* The value of the i-th point fetched for a field: no two points of the
\* model carry the same value.
ValueOf(fieldName, i) ==
    (IF fieldName = "heap_alloc" THEN 100 ELSE 200) + i

\* What GetDataPoints returns per field: the timestamps of the points of a
\* stored metric, in the order fetched, and nothing for any other name.
TimestampLists == UNION {[1..n -> 0..MaxTimestamp] : n \in 0..MaxPoints}
\* The datapoints of a field with the given timestamps.
DataPoints(fieldName, stamps) ==
    [i \in 1..Len(stamps) |->
        [Timestamp |-> stamps[i], Value |-> ValueOf(fieldName, i)]]

Fetches ==
    {[f \in QueryFields |->
         IF f \in StoredMetrics THEN DataPoints(f, stamps[f]) ELSE << >>] :
        stamps \in [StoredMetrics -> TimestampLists]}

\* The elements of a sequence.
Range(seq) == {seq[i] : i \in 1..Len(seq)}

\* m[k] = v on a map.
Put(m, k, v) == (k :> v) @@ m

\* A loop body that puts every point into the row of the earliest timestamp
\* seen so far.
AddPointToFirstRow(data, key, dp) ==
    IF DOMAIN data = {}
    THEN Put(data, dp.Timestamp, Put(EmptyMap, key, dp.Value))
    ELSE LET first == CHOOSE t \in DOMAIN data : \A u \in DOMAIN data : t <= u
         IN  Put(data, first, Put(data[first], key, dp.Value))

\* A loop body that keeps the value a row already has under the key.
AddPointKeepFirst(data, key, dp) ==
    LET row == IF dp.Timestamp \in DOMAIN data
               THEN data[dp.Timestamp] ELSE EmptyMap
    IN  IF key \in DOMAIN row THEN data
        ELSE Put(data, dp.Timestamp, Put(row, key, dp.Value))

\* The body of the loop over the datapoints of a field: the value goes into
\* the row of the point's timestamp, under the given key.
AddPoint(data, key, dp) ==
    LET row == IF dp.Timestamp \in DOMAIN data
               THEN data[dp.Timestamp] ELSE EmptyMap
    IN  Put(data, dp.Timestamp, Put(row, key, dp.Value))

\* for _, dp := range datapoints { ... }
RECURSIVE AddPoints(_, _, _)
AddPoints(data, key, dps) ==
    IF dps = << >> THEN data
    ELSE AddPoints(AddPoint(data, key, Head(dps)), key, Tail(dps))

\* A loop that passes over a field whose GetDataPoints call failed and
\* goes on with the next.
RECURSIVE GroupByTimestampSkipping(_, _, _, _, _)
GroupByTimestampSkipping(n, fieldNames, fetched, failed, renamed) ==
    IF n = 0 THEN [err |-> FALSE, data |-> EmptyMap]
    ELSE LET sofar == GroupByTimestampSkipping(n - 1, fieldNames, fetched,
                                               failed, renamed)
             fieldName == fieldNames[n]
         IN  IF fieldName = failed THEN sofar
             ELSE [err |-> FALSE,
                   data |-> AddPoints(sofar.data,
                                      IF renamed THEN Key(fieldName)
                                      ELSE fieldName,
                                      fetched[fieldName])]

\* for _, fieldName := range ... { ... }, after its first n rounds: the map
\* built, and whether a GetDataPoints call failed. The general query names a value by NameMap
\* (renamed), the report query by the field.
RECURSIVE GroupByTimestamp(_, _, _, _, _)
GroupByTimestamp(n, fieldNames, fetched, failed, renamed) ==
    IF n = 0 THEN [err |-> FALSE, data |-> EmptyMap]
    ELSE LET sofar == GroupByTimestamp(n - 1, fieldNames, fetched, failed,
                                       renamed)
             fieldName == fieldNames[n]
         IN  IF sofar.err THEN sofar
             ELSE IF fieldName = failed
             THEN [err |-> TRUE, data |-> sofar.data]
             ELSE [err |-> FALSE,
                   data |-> AddPoints(sofar.data,
                                      IF renamed THEN Key(fieldName)
                                      ELSE fieldName,
                                      fetched[fieldName])]

\* time.Unix(timestamp, 0).UTC().Format(time.RFC3339Nano), for the first
\* ten seconds of the epoch.
FormatTime(timestamp) ==
    "1970-01-01T00:00:0"
    \o <<"0", "1", "2", "3", "4", "5", "6", "7", "8", "9">>[timestamp + 1]
    \o "Z"

\* The rows of the map, sorted by their time string: among strings of one
\* length that differ in one digit, the order of the digits.
RECURSIVE SortedRows(_)
SortedRows(data) ==
    IF DOMAIN data = {} THEN << >>
    ELSE LET first == CHOOSE t \in DOMAIN data : \A u \in DOMAIN data : t <= u
         IN  <<[time |-> FormatTime(first), value |-> data[first]]>>
             \o SortedRows([t \in DOMAIN data \ {first} |-> data[t]])

\* GetServiceMetricsFromStorage from line 116 on, for a decoded request:
\* the status and the body of the response.
GetServiceMetricsFromStorage(fieldNames, fetched, failed) ==
    LET grouped ==
            GroupByTimestamp(Len(fieldNames), fieldNames, fetched, failed,
                             TRUE)
        dataByTimestamp == grouped.data
    IN  IF grouped.err
        THEN [status |-> 500, body |-> "Failed to get data points"]
        ELSE [status |-> 200, body |-> SortedRows(dataByTimestamp)]

\* A request with any field list, any fetched points, and at most one field
\* whose GetDataPoints call fails.
InitQuery ==
    /\ InitProgram
    /\ ev \in {Pending("GetServiceMetricsFromStorage",
                        <<fieldNames, fetched, failed>>) :
                   fieldNames \in FieldLists, fetched \in Fetches,
                   failed \in QueryFields \cup {"none"}}

\* The handler responds.
NextQuery ==
    /\ ev.fn = "GetServiceMetricsFromStorage"
    /\ ~ev.done
    /\ ev' = [ev EXCEPT
                 !.done = TRUE,
                 !.out = GetServiceMetricsFromStorage(ev.in[1], ev.in[2],
                                                      ev.in[3])]
    /\ UNCHANGED <<profilerVars, readerVars, serviceVars, storeVars>>

SpecQuery == InitQuery /\ [][NextQuery]_vars

\* ------------------------------------------------------------ the API
\* The fixed field list of a report topic; the empty list for an unknown
\* topic.
TopicFields(topic) ==
    CASE topic = "LoadStatistics" ->
             <<"overall_load_of_service", "service_cpu_load",
               "service_memory_load", "system_cpu_load",
               "system_memory_load">>
      [] topic = "CPUStatistics" ->
             <<"total_cores", "cores_used_by_service",
               "cores_used_by_system">>
      [] topic = "MemoryStatistics" ->
             <<"total_system_memory", "memory_used_by_system",
               "memory_used_by_service", "available_memory",
               "gc_pause_duration", "stack_memory_usage">>
      [] topic = "MemoryProfile" ->
             <<"heap_alloc_by_service", "heap_alloc_by_system",
               "total_alloc_by_service", "total_memory_by_os">>
      [] topic = "NetworkIO" -> <<"bytes_sent", "bytes_received">>
      [] topic = "OverallHealth" ->
             <<"service_health_percent", "system_health_percent">>
      [] OTHER -> << >>

Topics ==
    {"LoadStatistics", "CPUStatistics", "MemoryStatistics", "MemoryProfile",
     "NetworkIO", "OverallHealth"}

\* The metrics of the model a stored snapshot carries: the fields of the
\* topics and the stored metrics of the general query.
SnapshotMetrics ==
    StoredMetrics \cup UNION {Range(TopicFields(topic)) : topic \in Topics}

\* The value a snapshot stamped t carries for a metric: the metrics with
\* their own hundreds, so that no two points carry the same value.
MetricValue(metric, t) ==
    CASE metric \in StoredMetrics -> ValueOf(metric, t)
      [] OTHER ->
           LET topic == CHOOSE x \in Topics : metric \in Range(TopicFields(x))
               i == CHOOSE n \in 1..Len(TopicFields(topic)) :
                        TopicFields(topic)[n] = metric
           IN  1000 * Len(TopicFields(topic)) + 100 * i + t

\* The points the storage holds for a metric when the snapshots with the
\* given timestamps were stored, oldest first.
RECURSIVE StoredPoints(_, _)
StoredPoints(metric, stamps) ==
    IF stamps = {} \/ metric \notin SnapshotMetrics THEN << >>
    ELSE LET first == CHOOSE t \in stamps : \A u \in stamps : t <= u
         IN  <<[Timestamp |-> first, Value |-> MetricValue(metric, first)]>>
             \o StoredPoints(metric, stamps \ {first})

\* sto.Select(metric, labels, start, end): the stored points of the metric
\* from start (inclusive) to end (exclusive).
Select(points, start, end) ==
    SelectSeq(points,
              LAMBDA dp : start <= dp.Timestamp /\ dp.Timestamp < end)

\* A start time the handler passes on as it is.
UnclampedStart(startTime, serviceStartTime) == startTime

\* if startTime.Before(serviceStartTime) { startTime = serviceStartTime }
ClampedStart(startTime, serviceStartTime) ==
    IF startTime < serviceStartTime THEN serviceStartTime ELSE startTime

\* What the GetDataPoints calls of a handler return for the fields listed:
\* the range passed to storage is in whole seconds.
Fetched(fieldNames, points, startTime, endTime) ==
    [f \in Range(fieldNames) |->
        Select(points[f], Unix(startTime), Unix(endTime))]

\* An http.Error response, and a JSON response.
HttpError(status, message) == [status |-> status, body |-> message]
Json(body) == [status |-> 200, body |-> body]

\* The method a handler serves: every other one is answered 405.
ServedMethod(endpoint) ==
    IF endpoint \in {"service-metrics", "reports"} THEN "POST" ELSE "GET"

\* The method the integration guide lists for an endpoint.
ListedMethod(endpoint) ==
    IF endpoint = "service-metrics" THEN "POST" ELSE "GET"

\* GetServiceMetricsFromStorage and GetReportData after the method check:
\* the request is decoded, its times are parsed, the start is clamped and
\* the points are fetched and grouped.
QueryHandler(req, env, fieldNames, renamed) ==
    IF ~req.decodes
    THEN HttpError(400, "Failed to decode request")
    ELSE IF ~req.startParses THEN HttpError(400, "Invalid start time")
    ELSE IF ~req.endParses THEN HttpError(400, "Invalid end time")
    ELSE IF ~renamed /\ req.topic \notin Topics
    THEN HttpError(400, "Unknown topic")
    ELSE LET startTime == ClampedStart(req.start, env.serviceStart)
             fetched == Fetched(fieldNames, env.points, startTime, req.end)
             grouped == GroupByTimestamp(Len(fieldNames), fieldNames,
                                         fetched, env.failed, renamed)
         IN  IF grouped.err
             THEN HttpError(500, "Failed to get data points")
             ELSE Json(SortedRows(grouped.data))

\* A report query that fetches the first field of its topic alone.
GetReportDataFirstField(req, env) ==
    QueryHandler(req, env, SubSeq(TopicFields(req.topic), 1, 1), FALSE)

\* GetReportData after the method check.
GetReportData(req, env) ==
    QueryHandler(req, env, TopicFields(req.topic), FALSE)

\* ViewFunctionMetrics of package api after the method check.
FunctionDetails(req) ==
    IF req.name = "" 
    THEN HttpError(400, "Function name is required to get metrics")
    ELSE IF req.name \notin {"traced"}
    THEN HttpError(404, "Function not found")
    ELSE Json("core.ViewFunctionMetrics")

\* routeToAPIHandler: the handler of the path, which answers 405 to any
\* method but the one it serves.
Handle(req, env) ==
    IF req.endpoint \notin
           {"metrics", "service-info", "service-metrics",
            "go-routines-stats", "function", "function-details", "reports"}
    THEN HttpError(404, "404 page not found")
    ELSE IF req.method # ServedMethod(req.endpoint)
    THEN HttpError(405, "Method not allowed")
    ELSE CASE req.endpoint = "metrics" -> Json("core.GetServiceStats")
           [] req.endpoint = "service-info" -> Json("common.GetServiceInfo")
           [] req.endpoint = "go-routines-stats" ->
                  Json("core.CollectGoRoutinesInfo")
           [] req.endpoint = "function" -> Json("core.FunctionTraceDetails")
           [] req.endpoint = "function-details" -> FunctionDetails(req)
           [] req.endpoint = "service-metrics" ->
                  QueryHandler(req, env, req.fields, TRUE)
           [] req.endpoint = "reports" -> GetReportData(req, env)

\* The requests of the model: any method on any path with a body that may
\* be malformed; general queries and report queries of any range.
Endpoints ==
    {"metrics", "service-info", "service-metrics", "go-routines-stats",
     "function", "function-details", "reports", "other"}
Methods == {"GET", "POST", "PUT"}
WallTimes == 0..MaxWall
QueryTimes == 0..(MaxWall + TicksPerSecond)
PlainRequest ==
    [endpoint |-> "metrics", method |-> "GET", decodes |-> TRUE,
     startParses |-> TRUE, endParses |-> TRUE, fields |-> << >>,
     topic |-> "LoadStatistics", name |-> "traced", start |-> 0,
     end |-> MaxWall]
RoutedRequests ==
    {[PlainRequest EXCEPT !.endpoint = e, !.method = m, !.decodes = d,
                          !.startParses = sp, !.endParses = ep, !.name = n] :
        e \in Endpoints, m \in Methods, d \in BOOLEAN, sp \in BOOLEAN,
        ep \in BOOLEAN, n \in {"", "traced", "untraced"}}
GeneralQueries ==
    {[PlainRequest EXCEPT !.endpoint = "service-metrics", !.method = "POST",
                          !.fields = fs, !.start = a, !.end = b] :
        fs \in FieldLists, a \in QueryTimes, b \in QueryTimes}
ReportQueries ==
    {[PlainRequest EXCEPT !.endpoint = "reports", !.method = "POST",
                          !.topic = t, !.start = a, !.end = b] :
        t \in Topics \cup {"Unknown"}, a \in QueryTimes, b \in QueryTimes}
Requests == RoutedRequests \cup GeneralQueries \cup ReportQueries

\* The fields a request may fetch.
FieldsOf(req) == Range(req.fields) \cup Range(TopicFields(req.topic))

\* What a request meets: the recorded service start, the points stored for
\* its fields under the host label by any set of snapshots, and the one
\* field whose GetDataPoints call fails.
Environments(req) ==
    [serviceStart : WallTimes,
     points : {[f \in FieldsOf(req) |-> StoredPoints(f, stamps)] :
                  stamps \in SUBSET (0..Unix(MaxWall))},
     failed : {"none"} \cup FieldsOf(req)]

\* A request arrives.
InitApi ==
    /\ InitProgram
    /\ \E req \in Requests :
           ev \in {Pending("Handle", <<req, env>>) : env \in Environments(req)}

\* The handler responds.
NextApi ==
    /\ ev.fn = "Handle"
    /\ ~ev.done
    /\ ev' = [ev EXCEPT !.done = TRUE, !.out = Handle(ev.in[1], ev.in[2])]
    /\ UNCHANGED <<profilerVars, readerVars, serviceVars, storeVars>>

SpecApi == InitApi /\ [][NextApi]_vars

\* ------------------------------------------------------ store, or query
\* The program stores snapshots, or answers one query.
InitStorage ==
    /\ InitProgram
    /\ \/ ev = NoCall
       \/ \E req \in GeneralQueries \cup ReportQueries :
              ev \in {Pending("Handle", <<req, env>>) :
                         env \in Environments(req)}

NextStorage ==
    \/ NextApi
    \/ /\ ev = NoCall
       /\ NextStore

SpecStorage == InitStorage /\ [][NextStorage]_vars

\* ------------------------------------------------------- store, then query
\* The metric names of a batch of rows, in the order written.
MetricsOf(rows) == [i \in 1..Len(rows) |-> rows[i].Metric]

\* The rows of the batches the storage accepted, oldest first.
RECURSIVE AcceptedRows(_)
AcceptedRows(batches) ==
    IF batches = << >> THEN << >>
    ELSE (IF Head(batches).ok THEN Head(batches).rows ELSE << >>)
         \o AcceptedRows(Tail(batches))

\* The datapoints the storage holds for a metric under a label.
PointsOf(rows, metric, label) ==
    LET matching ==
            SelectSeq(rows,
                      LAMBDA row : row.Metric = metric
                                   /\ row.Labels = <<label>>)
    IN  [i \in 1..Len(matching) |-> matching[i].DataPoint]

\* The general query for the metric names the last StoreServiceMetrics
\* call wrote, over any window that contains the timestamp it wrote, against
\* what the storage holds under the host label of the moment.
QueryWritten(start, end) ==
    /\ spc = "returned"
    /\ sloc.err = "nil"
    /\ ev = NoCall
    /\ Unix(start) <= sloc.timestamp
    /\ sloc.timestamp < Unix(end)
    /\ LET req == [PlainRequest EXCEPT
                      !.endpoint = "service-metrics", !.method = "POST",
                      !.fields = MetricsOf(sloc.rows),
                      !.start = start, !.end = end]
           env == [serviceStart |-> 0,
                   points |-> [f \in Range(req.fields) |->
                                  PointsOf(AcceptedRows(inserted), f,
                                           GetHostLabel(host))],
                   failed |-> "none"]
       IN  ev' = [fn |-> "QueryWritten", in |-> <<req, env>>, done |-> TRUE,
                  out |-> Handle(req, env)]
    /\ UNCHANGED <<profilerVars, readerVars, serviceVars, storeVars>>

NextRoundTrip ==
    \/ /\ ev = NoCall
       /\ NextStore
    \/ \E start \in WallTimes, end \in {MaxWall, MaxWall + TicksPerSecond} :
           QueryWritten(start, end)

SpecRoundTrip == Init /\ [][NextRoundTrip]_vars

\* ================================================================ claims
\* The identity under which the concurrent callers trace FuncNoArgs.
TracedName == TraceFunctionName(FuncNoArgs)

\* The sampling decisions taken so far for identity n.
Decisions(n) == {e \in log : e.name = n}

\* No call for identity n is between its entry and its sampling decision.
Decided(n) ==
    \A c \in Callers :
        loc[c].name = n =>
            pc[c] \notin {"lockCounters", "incrLoad", "incrStore", "readCount",
                          "unlockCounters", "decide"}

\* Every caller is outside the trace functions.
AllReturned == \A c \in Callers : pc[c] \in {"idle", "returned"}

\* C1: once N invocations of one identity have taken their sampling
\* decision, all of them at the rate r >= 1, exactly floor(N/r) of them were
\* profiled; the counter values they saw are 1..N (1 on the first call) and
\* a call is profiled iff its counter value mod the rate it read is 0.
C1_ProfiledEveryRth ==
    \A n \in DOMAIN callCounters :
        /\ \A e \in Decisions(n) :
               /\ e.rate >= 1
               /\ e.profiled <=> (e.count % e.rate = 0)
        /\ Decided(n) =>
               /\ {e.count : e \in Decisions(n)} = 1..callCounters[n]
               /\ \A r \in {e.rate : e \in Decisions(n)} :
                      (\A e \in Decisions(n) : e.rate = r) =>
                          Cardinality({e \in Decisions(n) : e.profiled})
                              = callCounters[n] \div r

\* Three interleaved invocations at rate 2, one of them profiled: the call
\* that started second was counted first.
C1_Witness ==
    /\ AllReturned
    /\ samplingRate = 2
    /\ \A e \in Decisions(TracedName) : e.rate = 2
    /\ MapGet(callCounters, TracedName, 0) = 3
    /\ Cardinality({e \in Decisions(TracedName) : e.profiled}) = 1
    /\ \E e1, e2 \in Decisions(TracedName) : e1.id < e2.id /\ e1.count > e2.count

\* C2: no counter increment is lost under concurrent callers: the counter
\* values the calls of one identity observed are pairwise distinct, and
\* once all calls have returned the identity's counter equals the number of
\* invocations started, profiled or not.
C2_NoLostIncrement ==
    /\ \A e1, e2 \in Decisions(TracedName) :
           e1.id # e2.id => e1.count # e2.count
    /\ \A c \in Callers :
           pc[c] \in {"unlockCounters", "decide"} =>
               /\ \A e \in Decisions(TracedName) : e.count # loc[c].count
               /\ \A d \in Callers \ {c} :
                      pc[d] \in {"unlockCounters", "decide"} =>
                          loc[d].count # loc[c].count
    /\ AllReturned =>
           /\ MapGet(callCounters, TracedName, 0) = nCalls
           /\ Cardinality(Decisions(TracedName)) = nCalls

\* All calls have returned, some profiled and some not, after two of them
\* contended for the counter (the one that started later was counted first).
C2_Witness ==
    /\ AllReturned
    /\ nCalls = MaxCalls
    /\ MapGet(callCounters, TracedName, 0) = MaxCalls
    /\ \E e1, e2 \in Decisions(TracedName) :
           e1.id < e2.id /\ e1.count > e2.count /\ e1.profiled /\ ~e2.profiled

\* C3: a record returned by FunctionTraceDetails is never torn: its
\* last-invocation time, execution time and goroutine delta were written by
\* one invocation, and its memory delta and two profile paths were written
\* by one profiled invocation or are all still at their initial values.
C3_NoTornRecord ==
    \A r \in Readers : \A k \in DOMAIN snap[r] :
        LET m == snap[r][k]
            w == snapWriters[r][k]
        IN  /\ w.lastRanAt = w.executionTime
            /\ w.executionTime = w.goroutineCount
            /\ w.lastRanAt # 0
            /\ w.memoryUsage = w.cpuPath
            /\ w.cpuPath = w.memPath
            /\ IF w.memoryUsage = 0
               THEN /\ m.MemoryUsage = 0
                    /\ m.CPUProfileFilePath = EmptyString
                    /\ m.MemProfileFilePath = EmptyString
               ELSE /\ \E e \in log : e.id = w.memoryUsage /\ e.name = k /\ e.profiled
                    /\ m.CPUProfileFilePath = CpuProfFilePath(k)
                    /\ m.MemProfileFilePath = MemProfFilePath(k)

\* A read has copied a record that a profiled invocation wrote, while
\* another trace call waits for the table lock to update that record.
C3_Witness ==
    \E r \in Readers :
        /\ rpc[r] = "unlock"
        /\ TracedName \in DOMAIN snap[r]
        /\ snapWriters[r][TracedName].memoryUsage # 0
        /\ \E c \in Callers : pc[c] = "lockMetrics"

\* The reflective trace functions.
Reflective ==
    {"TraceFunctionWithArgs", "TraceFunctionWithReturns", "TraceFunctionWithReturn"}

\* The call of caller c is over: it returned, or a panic left it.
Over(c) == pc[c] \in {"returned", "panicked"}

\* C4: every TraceFunction call and every reflective call that passes the
\* validation executes the target exactly once, before the trace call
\* returns, sampled or not and whichever profiling steps fail.
C4_TargetRunsExactlyOnce ==
    \A c \in Callers :
        /\ loc[c].ran <= 1
        /\ (loc[c].verdict = "ok" /\ Over(c)) =>
               (pc[c] = "returned" /\ loc[c].ran = 1)

\* C4, for the calls that return: a call that passed the validation and
\* returned has executed its target exactly once, profiled or not, whichever
\* profiling steps failed.
C4_ReturnedRanOnce ==
    \A c \in Callers :
        (loc[c].verdict = "ok" /\ pc[c] = "returned") => loc[c].ran = 1

\* C5: a reflective call whose argument count differs from the callable's
\* parameter count is rejected: it returns nil and its target is not
\* invoked.
C5_CountMismatchRejected ==
    \A c \in Callers :
        ( /\ loc[c].api \in Reflective
          /\ loc[c].f.kind = "func"
          /\ Len(loc[c].args) # Len(loc[c].f.params) ) =>
            /\ pc[c] = "returned"
            /\ loc[c].verdict = "count"
            /\ loc[c].ran = 0
            /\ loc[c].ret = Nil

\* The 2-parameter target called with 1 argument, and with 0 arguments
\* through the result-returning wrapper: rejected, not invoked.
C5_Witness ==
    \E c \in Callers :
        /\ loc[c].f = FuncTwoArgs
        /\ pc[c] = "returned"
        /\ loc[c].ran = 0
        /\ \/ loc[c].api = "TraceFunctionWithArgs" /\ Len(loc[c].args) = 1
           \/ loc[c].api = "TraceFunctionWithReturns" /\ Len(loc[c].args) = 0

\* An argument list of the right length with an argument that is the
\* untyped nil or whose type is not assignable to its parameter's type.
TypeMismatch(f, args) ==
    /\ f.kind = "func"
    /\ Len(args) = Len(f.params)
    /\ \E i \in 1..Len(args) :
           args[i] = "nil" \/ ~AssignableTo(args[i], f.params[i])

\* C6: a reflective call with a type mismatch (an untyped nil argument
\* included) is rejected before execution: no panic in the caller, no
\* results, target not invoked.
C6_TypeMismatchRejected ==
    \A c \in Callers :
        (loc[c].api \in Reflective /\ TypeMismatch(loc[c].f, loc[c].args)) =>
            /\ pc[c] = "returned"
            /\ loc[c].verdict = "type"
            /\ loc[c].ran = 0
            /\ loc[c].ret = Nil

\* C6, without the untyped nil: an argument of a type that is not
\* assignable is rejected without a panic and without invoking the target.
C6_TypedMismatchRejected ==
    \A c \in Callers :
        ( /\ loc[c].api \in Reflective
          /\ TypeMismatch(loc[c].f, loc[c].args)
          /\ \A i \in 1..Len(loc[c].args) : loc[c].args[i] # "nil" ) =>
            /\ pc[c] = "returned"
            /\ loc[c].verdict = "type"
            /\ loc[c].ran = 0
            /\ loc[c].ret = Nil

\* What TraceFunctionWithReturns / TraceFunctionWithReturn are to hand back
\* for a valid call of f.
ExpectedReturn(api, f) ==
    IF api = "TraceFunctionWithReturns" THEN TargetResults(f)
    ELSE IF Len(f.results) > 0 THEN TargetResults(f)[1] ELSE Nil

\* C7: a valid call through TraceFunctionWithReturns returns all the
\* target's results in order, TraceFunctionWithReturn the first of them (nil
\* if there is none), and a rejected call returns nil.
C7_AllResultsReturned ==
    \A c \in Callers :
        (loc[c].api \in {"TraceFunctionWithReturns", "TraceFunctionWithReturn"}
         /\ Over(c)) =>
            /\ loc[c].verdict = "ok" =>
                   /\ pc[c] = "returned"
                   /\ loc[c].ret = ExpectedReturn(loc[c].api, loc[c].f)
            /\ loc[c].verdict \in {"notfunc", "count", "type"} =>
                   loc[c].ret = Nil

\* C7, for the calls that return.
C7_ReturnedResults ==
    \A c \in Callers :
        (loc[c].api \in {"TraceFunctionWithReturns", "TraceFunctionWithReturn"}
         /\ pc[c] = "returned") =>
            loc[c].ret = IF loc[c].verdict = "ok"
                         THEN ExpectedReturn(loc[c].api, loc[c].f) ELSE Nil

\* C8: the effective rate is max(1, last argument of SetSamplingRate), or
\* the default if it was never set; it is at least 1, so no sampling
\* decision divides by zero, and at rate 1 every invocation is profiled.
C8_RateClamped ==
    /\ samplingRate = IF rateArgs = << >> THEN DefaultSamplingRate
                      ELSE Max(1, rateArgs[1])
    /\ samplingRate >= 1
    /\ \A c \in Callers : pc[c] # "panicked"
    /\ \A e \in log : e.rate >= 1 /\ (e.rate = 1 => e.profiled)

\* SetSamplingRate(0) left the rate at 1 and the invocation that followed
\* was profiled.
C8_Witness ==
    /\ rateArgs = <<0>>
    /\ samplingRate = 1
    /\ \E c \in Callers :
           pc[c] = "start" /\ loc[c].rate = 1 /\ loc[c].shouldProfile

\* The positions at which the deltas of the call have been computed.
Measured ==
    {"lockMetrics", "setLastRanAt", "setExecutionTime", "setGoroutineCount",
     "setMemoryUsage", "setCPUProfileFilePath", "setMemProfileFilePath",
     "create", "unlockMetrics"}

\* C9: the goroutine delta and the memory delta of every record are >= 0,
\* and a final reading below the initial one yields 0.
C9_DeltasNotNegative ==
    /\ \A n \in DOMAIN functionMetrics :
           /\ functionMetrics[n].GoroutineCount >= 0
           /\ functionMetrics[n].MemoryUsage >= 0
    /\ \A c \in Callers :
           pc[c] \in Measured =>
               /\ loc[c].finalGoroutines >= 0
               /\ loc[c].memoryUsage >= 0
               /\ loc[c].goroutinesAfter < loc[c].initialGoroutines =>
                      loc[c].finalGoroutines = 0
               /\ loc[c].memStatsAfter < loc[c].memStatsBefore =>
                      loc[c].memoryUsage = 0

\* A profiled invocation during which both the goroutine count and the
\* heap went down has written its deltas, both 0, into the record.
C9_Witness ==
    \E c \in Callers :
        /\ pc[c] = "unlockMetrics"
        /\ loc[c].shouldProfile
        /\ loc[c].goroutinesAfter < loc[c].initialGoroutines
        /\ loc[c].memStatsAfter < loc[c].memStatsBefore
        /\ functionMetrics[loc[c].name].GoroutineCount = 0
        /\ functionMetrics[loc[c].name].MemoryUsage = 0
        /\ writers[loc[c].name].memoryUsage = loc[c].id

\* Caller c, not profiled, is updating the existing record of its identity.
UpdatingUnprofiled(c) ==
    /\ mu = CallerOwner(c)
    /\ ~loc[c].shouldProfile
    /\ pc[c] \in {"setLastRanAt", "setExecutionTime", "setGoroutineCount",
                  "setMemoryUsage", "setCPUProfileFilePath",
                  "setMemProfileFilePath", "unlockMetrics"}
    /\ loc[c].name \in DOMAIN functionMetrics

\* C10: a non-profiled invocation of an identity that has a record leaves
\* the record's memory delta and two profile paths as they were, and has
\* written its own time, duration and goroutine delta when it returns.
C10_UnprofiledKeepsProfileFields ==
    [][\A c \in Callers :
          UpdatingUnprofiled(c) =>
              LET old == functionMetrics[loc[c].name]
                  new == functionMetrics'[loc[c].name]
              IN  /\ new.MemoryUsage = old.MemoryUsage
                  /\ new.CPUProfileFilePath = old.CPUProfileFilePath
                  /\ new.MemProfileFilePath = old.MemProfileFilePath
                  /\ pc'[c] = "returned" =>
                         /\ new.FunctionLastRanAt = loc[c].start
                         /\ new.ExecutionTime = loc[c].elapsed
                         /\ new.GoroutineCount = loc[c].finalGoroutines]_vars

\* A non-profiled invocation has updated, with a later time and another
\* goroutine delta, a record whose memory delta and paths an earlier
\* profiled invocation wrote; they are still that invocation's.
C10_Witness ==
    \E c \in Callers :
        /\ pc[c] = "unlockMetrics"
        /\ ~loc[c].shouldProfile
        /\ writers[loc[c].name].lastRanAt = loc[c].id
        /\ writers[loc[c].name].goroutineCount = loc[c].id
        /\ writers[loc[c].name].memoryUsage \notin {0, loc[c].id}
        /\ writers[loc[c].name].cpuPath = writers[loc[c].name].memoryUsage
        /\ functionMetrics[loc[c].name].MemoryUsage > 0
        /\ functionMetrics[loc[c].name].CPUProfileFilePath = CpuProfFilePath(loc[c].name)
        /\ functionMetrics[loc[c].name].MemProfileFilePath = MemProfFilePath(loc[c].name)
        /\ functionMetrics[loc[c].name].FunctionLastRanAt = loc[c].start
        /\ loc[c].start > 0

\* The positions from which a trace call does its I/O and runs the target:
\* os.MkdirAll and StartCPUProfile (Decide), fn() (Run), StopCPUProfile and
\* WriteHeapProfile (Measure), and the reading of the clock between them.
OutsideLocks == {"decide", "start", "run", "measure"}

\* C11: no caller that holds mu or countersMu is executing the target,
\* creating the profile directory, starting or stopping the CPU profile or
\* writing the heap profile; each lock is held only for the in-memory update.
C11_NoLockAroundIO ==
    \A c \in Callers :
        /\ pc[c] \in OutsideLocks =>
               /\ mu # CallerOwner(c)
               /\ countersMu # CallerOwner(c)
        /\ countersMu = CallerOwner(c) =>
               pc[c] \in {"incrLoad", "incrStore", "readCount", "unlockCounters"}
        /\ mu = CallerOwner(c) =>
               pc[c] \in {"setLastRanAt", "setExecutionTime", "setGoroutineCount",
                          "setMemoryUsage", "setCPUProfileFilePath",
                          "setMemProfileFilePath", "create", "unlockMetrics"}

\* A profiled call is about to run its target while another call holds the
\* table lock.
C11_Witness ==
    \E c, d \in Callers :
        /\ c # d
        /\ pc[d] = "run"
        /\ loc[d].shouldProfile
        /\ mu = CallerOwner(c)

\* The profiling steps of a sampled invocation.
ProfileSteps == ProfileSetupSteps \cup ProfileFinishSteps

\* C12: when MkdirAll, StartCPUProfile or WriteHeapProfile fails on a
\* sampled invocation the traced call is not aborted: no panic leaves it, a
\* call that returned ran its target exactly once, and it returns having
\* written its own time, duration and goroutine delta into the record.
C12_FailureDoesNotAbort ==
    [][\A c \in Callers :
          /\ pc'[c] # "panicked"
          /\ (loc[c].shouldProfile /\ loc[c].failed # {} /\ pc[c] # "returned"
                  /\ pc'[c] = "returned") =>
                 /\ loc[c].ran = 1
                 /\ loc[c].name \in DOMAIN functionMetrics'
                 /\ LET m == functionMetrics'[loc[c].name]
                    IN  /\ m.FunctionLastRanAt = loc[c].start
                        /\ m.ExecutionTime = loc[c].elapsed
                        /\ m.GoroutineCount = loc[c].finalGoroutines]_vars

\* A sampled invocation on which all three profiling steps failed has
\* returned after running its target once, and its record carries its
\* time; an earlier invocation had created the record.
C12_Witness ==
    \E c \in Callers :
        /\ pc[c] = "returned"
        /\ loc[c].shouldProfile
        /\ loc[c].failed = ProfileSteps
        /\ loc[c].ran = 1
        /\ loc[c].id = 2
        /\ writers[loc[c].name].lastRanAt = loc[c].id
        /\ functionMetrics[loc[c].name].FunctionLastRanAt > 0

\* C13: when a profiling step of a sampled invocation fails, the record
\* fields that depend on it keep the value they had before the invocation:
\* the CPU profile path if StartCPUProfile failed, the heap profile path if
\* WriteHeapProfile failed.
C13_FailedStepKeepsPath ==
    [][\A c \in Callers :
          (mu = CallerOwner(c) /\ loc[c].name \in DOMAIN functionMetrics) =>
              LET old == functionMetrics[loc[c].name]
                  new == functionMetrics'[loc[c].name]
              IN  /\ "StartCPUProfile" \in loc[c].failed =>
                         new.CPUProfileFilePath = old.CPUProfileFilePath
                  /\ "WriteHeapProfile" \in loc[c].failed =>
                         new.MemProfileFilePath = old.MemProfileFilePath]_vars

\* C13, for a record that already names its profile files: the paths of an
\* identity never change once set, whether the profiling steps fail or not.
C13_SetPathsNeverChange ==
    [][\A n \in DOMAIN functionMetrics :
          /\ functionMetrics[n].CPUProfileFilePath # EmptyString =>
                 functionMetrics'[n].CPUProfileFilePath
                     = functionMetrics[n].CPUProfileFilePath
          /\ functionMetrics[n].MemProfileFilePath # EmptyString =>
                 functionMetrics'[n].MemProfileFilePath
                     = functionMetrics[n].MemProfileFilePath]_vars

\* C14: FunctionTraceDetails returns a snapshot copy. While a caller holds
\* the returned map S, a step that changes the function-metrics table (a
\* later trace call) leaves S and every record in S unchanged, and a step
\* that changes S or a record in S (the holder's own writes) leaves the
\* table unchanged.
C14_SnapshotIsACopy ==
    [][\A r \in Readers :
          (rpc[r] = "idle" /\ rpc'[r] = "idle") =>
              (functionMetrics' = functionMetrics \/ View(r)' = View(r))]_vars

\* The holder of a snapshot has overwritten a field of a record in it and
\* deleted another record from it, and a later trace call has updated the
\* table's record: the two records differ, the table has both identities.
C14_Witness ==
    \E r \in Readers :
        /\ rpc[r] = "idle"
        /\ DOMAIN snap[r] = {TracedName}
        /\ DOMAIN functionMetrics = {TraceFunctionName(f) : f \in Thunks}
        /\ View(r)[TracedName].GoroutineCount = MaxGoroutines
        /\ functionMetrics[TracedName].GoroutineCount = 0
        /\ snapWriters[r][TracedName].lastRanAt # writers[TracedName].lastRanAt

\* C15: in GetServiceStats the health scores are computed only after all
\* six sub-collectors have written their part of the snapshot and finished;
\* the health computation reads every part as the call returns it.
C15_HealthAfterJoin ==
    /\ gpc \in {"health", "returned"} =>
           /\ wg = 0
           /\ \A k \in Collectors :
                  /\ cpc[k] = "done"
                  /\ stats[k] = Collected(k, failing, reading)
    /\ gpc = "returned" =>
           \A k \in Collectors \cup {"core"} : healthInput[k] = stats[k]

\* The call has returned with the health computed from all six parts, one
\* source of the memory collector having failed.
C15_Witness ==
    /\ gpc = "returned"
    /\ stats["health"] = Term("GetServiceHealth", healthInput)
    /\ failing = {"mem.SwapMemory"}
    /\ \A k \in Collectors : healthInput[k] = Collected(k, failing, reading)

\* C16: for every subset of stat sources that fail during one
\* GetServiceStats call the call returns a snapshot in which the values
\* derived from a failed source are zero/default and every value derived
\* only from sources that did not fail is what that source reported.
C16_PartialFailure ==
    gpc = "returned" =>
        /\ stats["cpu"].CoresUsedBySystem =
               IF "GetCPUPrecent" \in failing THEN 0
               ELSE UsedCores(reading, LogicalCores)
        /\ stats["cpu"].CoresUsedByService =
               IF "getProcessUsage" \in failing THEN 0
               ELSE UsedCores(reading, LogicalCores)
        /\ stats["memory"].TotalSystemMemoryRaw =
               IF "mem.VirtualMemory" \in failing THEN 0 ELSE reading
        /\ stats["memory"].TotalSwapMemory \in
               IF "mem.SwapMemory" \in failing
               THEN {EmptyString, Term("BytesToUnit", 0)}
               ELSE {Term("BytesToUnit", reading)}
        /\ stats["memory"].MemoryUsedByServiceRaw = reading
        /\ stats["network"] =
               IF "net.IOCounters" \in failing
               THEN [BytesReceived |-> 0, BytesSent |-> 0]
               ELSE [BytesReceived |-> reading + 1, BytesSent |-> reading + 1]
        /\ stats["alloc"] = [HeapAllocByServiceRaw |-> reading]
        /\ stats["load"] = Term("GetLoadStatistics", reading)
        /\ stats["disk"] = Term("GetDiskIO", reading)

\* The sources whose error sub-collector k handles.
CollectorSources(k) ==
    CASE k = "cpu" -> {"GetCPUPrecent", "GetVirtualMemoryStats", "getProcessUsage"}
      [] k = "memory" -> {"mem.VirtualMemory", "mem.SwapMemory"}
      [] k = "network" -> {"net.IOCounters"}
      [] OTHER -> {}

\* C16, per sub-collector: the part of a sub-collector none of whose
\* sources failed is what its sources reported, whatever failed elsewhere,
\* and the part of the memory collector is the zero struct when
\* mem.VirtualMemory failed.
C16_CollectorsIndependent ==
    gpc = "returned" =>
        /\ \A k \in Collectors :
               CollectorSources(k) \cap failing = {} =>
                   stats[k] = Collected(k, {}, reading)
        /\ "mem.VirtualMemory" \in failing =>
               stats["memory"] = ZeroMemoryStatistics

\* The clamp of x to [0, 100 percent].
ClampToPercent(x) == IF x > Hundred THEN Hundred ELSE IF x < 0 THEN 0 ELSE x

\* C17: for every pair of loads CalculateOverallLoad returns a value in
\* [0,100]: 0.5*cpu + 0.5*mem when that lies in [0,100], 100 when it is
\* above, 0 when it is below 0.
C17_OverallLoadClamped ==
    (ev.fn = "CalculateOverallLoad" /\ ev.done) =>
        /\ ev.out >= 0
        /\ ev.out <= Hundred
        /\ ev.out = ClampToPercent(5 * ev.in[1] + 5 * ev.in[2])

\* C17, for loads whose weighted sum is not negative: the result is the
\* weighted sum capped at 100.
C17_CappedAbove ==
    (ev.fn = "CalculateOverallLoad" /\ ev.done /\ ev.in[1] + ev.in[2] >= 0) =>
        /\ ev.out >= 0
        /\ ev.out <= Hundred
        /\ ev.out = ClampToPercent(5 * ev.in[1] + 5 * ev.in[2])

\* The bucket of a score: the label of the highest threshold it reaches.
Bucket(score) ==
    CASE score >= 900 -> "[Excellent]"
      [] score >= 850 /\ score < 900 -> "[Good]"
      [] score >= 700 /\ score < 850 -> "[Satisfactory]"
      [] score >= 500 /\ score < 700 -> "[Fair]"
      [] score >= 300 /\ score < 500 -> "[Poor]"
      [] score < 300 -> "[Critical]"

\* The label a status message starts with.
Label(message) ==
    CASE message = getStatusMessage(900) -> "[Excellent]"
      [] message = getStatusMessage(850) -> "[Good]"
      [] message = getStatusMessage(700) -> "[Satisfactory]"
      [] message = getStatusMessage(500) -> "[Fair]"
      [] message = getStatusMessage(300) -> "[Poor]"
      [] message = getStatusMessage(0) -> "[Critical]"
      [] OTHER -> "none"

\* The health of a returned GetServiceHealth call whose scores were computed,
\* with the score it was built from.
ScoredHealths ==
    {<<ev.in[2], ev.out.ServiceHealth>>, <<ev.in[3], ev.out.SystemHealth>>}

\* C18: for every health score the Healthy flag is true iff the score is
\* above 50 (exactly 50 is not healthy) and the message is the one of the
\* score's threshold bucket (>=90 Excellent, >=85 Good, >=70 Satisfactory,
\* >=50 Fair, >=30 Poor, otherwise Critical); the service score and the
\* system score follow the same rule.
C18_HealthyAndBucket ==
    (ev.fn = "GetServiceHealth" /\ ev.done /\ ~ev.in[1]) =>
        \A sh \in ScoredHealths :
            /\ sh[2].Percent = sh[1]
            /\ sh[2].Healthy <=> sh[1] > 500
            /\ Label(sh[2].Message) = Bucket(sh[1])

\* A returned call whose service score is exactly 50 (not healthy, Fair) and
\* whose system score is just above 50 (healthy, Fair).
C18_Witness ==
    /\ ev.fn = "GetServiceHealth" /\ ev.done /\ ~ev.in[1]
    /\ ev.in[2] = 500 /\ ev.in[3] = 505
    /\ ~ev.out.ServiceHealth.Healthy
    /\ ev.out.SystemHealth.Healthy
    /\ Label(ev.out.ServiceHealth.Message) = "[Fair]"
    /\ Label(ev.out.SystemHealth.Message) = "[Fair]"

\* The rows of a batch carry one timestamp and one label, and each row
\* carries that label alone.
Uniform(rows) ==
    \A r1 \in Range(rows), r2 \in Range(rows) :
        /\ r1.DataPoint.Timestamp = r2.DataPoint.Timestamp
        /\ Len(r1.Labels) = 1
        /\ r1.Labels[1].Name = "host"
        /\ r1.Labels = r2.Labels

\* C19: all points emitted by one StoreServiceMetrics call carry the same
\* timestamp (the whole seconds read once) and the same single host label,
\* and they are handed to storage in one InsertRows batch.
C19_OneStampOneLabelOneBatch ==
    /\ Uniform(sloc.rows)
    /\ \A row \in Range(sloc.rows) :
           /\ row.DataPoint.Timestamp = sloc.timestamp
           /\ row.Labels = <<sloc.label>>
    /\ \A i \in 1..Len(inserted) :
           /\ Uniform(inserted[i].rows)
           /\ \A j \in 1..Len(inserted) :
                  inserted[i].call = inserted[j].call => i = j
    /\ (spc = "returned" /\ sloc.next > NumGenerators) =>
           /\ Len(inserted) > 0
           /\ inserted[Len(inserted)].call = nStore
           /\ inserted[Len(inserted)].rows = sloc.rows
           /\ Len(sloc.rows) = 25 + Len(sloc.records)

\* A call returned after the clock passed a second boundary and the host
\* name changed while the rows were generated.
C19_Witness ==
    /\ spc = "returned"
    /\ sloc.err = "nil"
    /\ Len(inserted) > 0
    /\ Len(inserted[Len(inserted)].rows) = 25 + MaxRawRecords
    /\ Unix(wall) > sloc.timestamp
    /\ GetHostLabel(host) # sloc.label

\* The points fetched for the requested fields of the query: field,
\* timestamp, value.
FetchedPoints ==
    UNION {{<<f, ev.in[2][f][i].Timestamp, ev.in[2][f][i].Value>> :
                i \in 1..Len(ev.in[2][f])} : f \in Range(ev.in[1])}

\* The row of a response carries a value of field f: one of the values
\* fetched for f, under the key of f.
HasValueFor(row, f) ==
    /\ Key(f) \in DOMAIN row.value
    /\ \E p \in FetchedPoints : p[1] = f /\ p[3] = row.value[Key(f)]

\* C20: the general query returns exactly one row per distinct timestamp
\* among the points fetched for the requested fields, and the row for
\* timestamp t has a value for field f iff f has a fetched point stamped
\* exactly t; points of different fields with different timestamps never
\* share a row.
C20_OneRowPerTimestamp ==
    (ev.fn = "GetServiceMetricsFromStorage" /\ ev.done
        /\ ev.out.status = 200) =>
        LET rows == ev.out.body
            stamps == {p[2] : p \in FetchedPoints}
        IN  /\ Len(rows) = Cardinality(stamps)
            /\ {rows[i].time : i \in 1..Len(rows)} =
                   {FormatTime(t) : t \in stamps}
            /\ \A i \in 1..Len(rows), t \in stamps :
                   rows[i].time = FormatTime(t) =>
                       /\ \A f \in Range(ev.in[1]) :
                              HasValueFor(rows[i], f) <=>
                                  \E p \in FetchedPoints :
                                      p[1] = f /\ p[2] = t
                       /\ \A k \in DOMAIN rows[i].value :
                              \E p \in FetchedPoints :
                                  /\ Key(p[1]) = k
                                  /\ p[2] = t
                                  /\ p[3] = rows[i].value[k]

\* A response with two rows: one timestamp at which both requested fields
\* have a point, one at which only one of them has.
C20_Witness ==
    /\ ev.fn = "GetServiceMetricsFromStorage" /\ ev.done
    /\ ev.out.status = 200
    /\ ev.in[1] = <<"heap_alloc", "goroutines">>
    /\ ev.in[2]["heap_alloc"] = DataPoints("heap_alloc", <<0, 1>>)
    /\ ev.in[2]["goroutines"] = DataPoints("goroutines", <<1>>)
    /\ Len(ev.out.body) = 2
    /\ DOMAIN ev.out.body[1].value = {"HeapAlloc"}
    /\ DOMAIN ev.out.body[2].value = {"HeapAlloc", "goroutines"}

\* The rows of a response are strictly ascending by time: each row's time
\* string is the format of a timestamp below the one of the next row.
StrictlyAscending(rows) ==
    \A i \in 1..(Len(rows) - 1) :
        \E t \in 0..MaxTimestamp, u \in 0..MaxTimestamp :
            /\ t < u
            /\ rows[i].time = FormatTime(t)
            /\ rows[i + 1].time = FormatTime(u)

\* C21: the rows returned by a query are strictly ascending by time, and
\* every key of a row's value mapping is a requested field that had data
\* in the queried range.
C21_AscendingRequestedKeys ==
    (ev.fn = "GetServiceMetricsFromStorage" /\ ev.done
        /\ ev.out.status = 200) =>
        /\ StrictlyAscending(ev.out.body)
        /\ \A i \in 1..Len(ev.out.body) :
               \A k \in DOMAIN ev.out.body[i].value :
                   /\ k \in Range(ev.in[1])
                   /\ \E p \in FetchedPoints : p[1] = k

\* C21, with the keys the general query writes: the rows are strictly
\* ascending by time, and every key of a row is NameMap's name for a
\* requested field that had data, or the field itself when NameMap has none.
C21_AscendingDisplayKeys ==
    (ev.fn = "GetServiceMetricsFromStorage" /\ ev.done
        /\ ev.out.status = 200) =>
        /\ StrictlyAscending(ev.out.body)
        /\ \A i \in 1..Len(ev.out.body) :
               \A k \in DOMAIN ev.out.body[i].value :
                   \E p \in FetchedPoints : Key(p[1]) = k

\* A query request was answered.
QueryAnswered ==
    /\ ev.fn = "Handle" /\ ev.done
    /\ ev.in[1].endpoint \in {"service-metrics", "reports"}

\* The times of the rows of a 200 response lie in the given range of
\* seconds.
RowsWithin(response, from, to) ==
    response.status = 200 =>
        \A i \in 1..Len(response.body) :
            \E t \in from..(to - 1) : response.body[i].time = FormatTime(t)

\* C22: a query whose start time precedes the recorded service start
\* returns what the same query with the service start as its start time
\* returns, and no row older than the service start; a start time at or
\* after the service start reaches storage unchanged.
C22_StartClampedToServiceStart ==
    QueryAnswered =>
        LET req == ev.in[1]
            env == ev.in[2]
        IN  /\ req.start < env.serviceStart =>
                   /\ ev.out =
                          Handle([req EXCEPT !.start = env.serviceStart], env)
                   /\ RowsWithin(ev.out, Unix(env.serviceStart),
                                 Unix(req.end))
            /\ req.start >= env.serviceStart =>
                   /\ ev.out = Handle([req EXCEPT !.start = req.start],
                                      [env EXCEPT !.serviceStart = 0])
                   /\ RowsWithin(ev.out, Unix(req.start), Unix(req.end))

\* A general query from before the service start, over a store with one
\* snapshot older than the service start and one younger, answered with the
\* younger one alone.
C22_Witness ==
    /\ QueryAnswered
    /\ ev.in[1].fields = <<"goroutines">>
    /\ ev.in[1].start = 0
    /\ ev.in[2].serviceStart = TicksPerSecond
    /\ ev.in[2].points["goroutines"] = StoredPoints("goroutines", {0, 1})
    /\ ev.out.status = 200
    /\ Len(ev.out.body) = 1
    /\ ev.out.body[1].time = FormatTime(1)

\* A report query of a known topic was answered.
ReportAnswered ==
    /\ ev.fn = "Handle" /\ ev.done
    /\ ev.in[1].endpoint = "reports"
    /\ ev.in[1].method = "POST"
    /\ ev.in[1].topic \in Topics

\* C24: for every known topic and every time range the report query
\* returns what the general query returns for the topic's field list and
\* the same range, the keys of the rows included.
C24_ReportIsGeneralQuery ==
    ReportAnswered =>
        ev.out = Handle([ev.in[1] EXCEPT
                            !.endpoint = "service-metrics",
                            !.fields = TopicFields(ev.in[1].topic)],
                        ev.in[2])

\* A report on MemoryStatistics answered with a row per stored snapshot,
\* each with the six fields of the topic as its keys.
C24_Witness ==
    /\ ReportAnswered
    /\ ev.in[1].topic = "MemoryStatistics"
    /\ ev.out.status = 200
    /\ Len(ev.out.body) = 2
    /\ \A i \in 1..2 :
           DOMAIN ev.out.body[i].value =
               Range(TopicFields("MemoryStatistics"))

\* The last StoreServiceMetrics call wrote the one snapshot of the store,
\* and the metric names it wrote were queried over a window that contains
\* the snapshot's timestamp, under the host label it was written with.
RoundTripDone ==
    /\ ev.fn = "QueryWritten"
    /\ Len(inserted) = 1
    /\ Unix(ev.in[1].start) <= sloc.timestamp
    /\ sloc.timestamp < Unix(ev.in[1].end)
    /\ GetHostLabel(host) = sloc.label

\* C23: after StoreServiceMetrics wrote one snapshot, the query for the
\* metric names it wrote over a window that contains its timestamp returns
\* exactly one row, whose time is the snapshot's timestamp and whose value
\* for each requested field is the value written for it.
C23_RoundTrip ==
    RoundTripDone =>
        /\ ev.out.status = 200
        /\ Len(ev.out.body) = 1
        /\ ev.out.body[1].time = FormatTime(sloc.timestamp)
        /\ \A i \in 1..Len(sloc.rows) :
               /\ sloc.rows[i].Metric \in DOMAIN ev.out.body[1].value
               /\ ev.out.body[1].value[sloc.rows[i].Metric] =
                      sloc.rows[i].DataPoint.Value

\* C23, with the keys the general query writes: the one row holds the
\* value written for each metric under NameMap's name for it, or under the
\* metric name when NameMap has none.
C23_RoundTripDisplayKeys ==
    RoundTripDone =>
        /\ ev.out.status = 200
        /\ Len(ev.out.body) = 1
        /\ ev.out.body[1].time = FormatTime(sloc.timestamp)
        /\ \A i \in 1..Len(sloc.rows) :
               /\ Key(sloc.rows[i].Metric) \in DOMAIN ev.out.body[1].value
               /\ ev.out.body[1].value[Key(sloc.rows[i].Metric)] =
                      sloc.rows[i].DataPoint.Value

\* The fields a valid query request fetches, in order.
FetchedFields(req) ==
    IF req.endpoint = "reports" THEN TopicFields(req.topic) ELSE req.fields

\* A well-formed query was answered after the GetDataPoints call of one of
\* its fields failed.
FetchFailed ==
    /\ QueryAnswered
    /\ ev.in[1].method = "POST"
    /\ ev.in[1].decodes /\ ev.in[1].startParses /\ ev.in[1].endParses
    /\ ev.in[1].endpoint = "reports" => ev.in[1].topic \in Topics
    /\ ev.in[2].failed \in Range(FetchedFields(ev.in[1]))

\* C25: storage failures are not dropped: when InsertRows fails,
\* StoreServiceMetrics returns an error; when the fetch of one requested
\* field fails, the query answers with an error and no rows, not with the
\* rows of the fields fetched before.
C25_StorageFailuresSurface ==
    /\ (spc = "returned" /\ sloc.next > NumGenerators) =>
           /\ Len(inserted) > 0
           /\ inserted[Len(inserted)].ok <=> sloc.err = "nil"
           /\ ~inserted[Len(inserted)].ok =>
                  sloc.err = "error storing service metrics"
    /\ FetchFailed =>
           /\ ev.out.status = 500
           /\ ev.out.body = "Failed to get data points"

\* A report whose second field failed after the first one was fetched with
\* two points in range.
C25_Witness ==
    /\ FetchFailed
    /\ ev.in[1].endpoint = "reports"
    /\ ev.in[2].failed = FetchedFields(ev.in[1])[2]
    /\ Len(Fetched(FetchedFields(ev.in[1]), ev.in[2].points,
                   ClampedStart(ev.in[1].start, ev.in[2].serviceStart),
                   ev.in[1].end)[FetchedFields(ev.in[1])[1]]) = 2
    /\ ev.out.status = 500

\* ------------------------------------------------- rendering the profiles
GoNotFoundReport == "Error: 'go' command not found. pprof reports require the Go SDK."
GoNotFoundTrace == "Error: 'go' command not found."
EmptyPathReport == "Error: Profile file path is empty"

\* cmd.CombinedOutput() of `go tool pprof <flag> [name] <path>`: the output
\* when the subprocess succeeds, and what the caller formats when it fails.
PprofCommand(flag, path) == "go tool pprof -" \o flag \o " " \o path

\* ViewFunctionMetrics once the go command was found: the code trace of the
\* CPU profile, then the two reports.
RenderReports(name, reportType, metrics, tools) ==
    LET executePprof(profileFilePath, ok) ==
            IF profileFilePath = "" THEN EmptyPathReport
            ELSE IF ~ok THEN "Error executing pprof: " \o
                             PprofCommand(reportType, profileFilePath)
            ELSE PprofCommand(reportType, profileFilePath)
        codeStack ==
            IF metrics.CPUProfileFilePath = "" THEN ""
            ELSE IF ~tools.listOk
                 THEN "Error generating code trace: " \o
                      PprofCommand("list " \o name, metrics.CPUProfileFilePath)
            ELSE PprofCommand("list " \o name, metrics.CPUProfileFilePath)
    IN  [FunctionName |-> name,
         CPU |-> executePprof(metrics.CPUProfileFilePath, tools.cpuOk),
         Mem |-> executePprof(metrics.MemProfileFilePath, tools.memOk),
         FunctionCodeTrace |-> codeStack,
         commands |->
             (IF metrics.CPUProfileFilePath = "" THEN <<>>
              ELSE <<PprofCommand("list " \o name,
                                  metrics.CPUProfileFilePath),
                     PprofCommand(reportType, metrics.CPUProfileFilePath)>>)
             \o (IF metrics.MemProfileFilePath = "" THEN <<>>
                 ELSE <<PprofCommand(reportType,
                                     metrics.MemProfileFilePath)>>)]

\* ViewFunctionMetrics that goes on to the reports without looking for the
\* go command.
ViewFunctionMetricsNoLookPath(name, reportType, metrics, tools) ==
    RenderReports(name, reportType, metrics, tools)

\* ViewFunctionMetrics of package core: the result, and in `commands` the
\* subprocesses it ran, in order.  tools.goFound is the outcome of
\* exec.LookPath("go"); listOk, cpuOk and memOk are the outcomes of the three
\* subprocesses.
ViewFunctionMetrics(name, reportType, metrics, tools) ==
    IF ~tools.goFound
    THEN [FunctionName |-> name,
          CPU |-> GoNotFoundReport,
          Mem |-> GoNotFoundReport,
          FunctionCodeTrace |-> GoNotFoundTrace,
          commands |-> <<>>]
    ELSE RenderReports(name, reportType, metrics, tools)

ReportTypes == {"text", "top"}
ProfiledNames == {"main.f", "main.g"}
ProfilePaths(name, kind) == {"", "profiles/" \o name \o "_" \o kind \o ".prof"}
RenderHosts == [goFound : BOOLEAN, listOk : BOOLEAN, cpuOk : BOOLEAN, memOk : BOOLEAN]

InitView ==
    /\ InitProgram
    /\ \E name \in ProfiledNames :
          ev \in {Pending("ViewFunctionMetrics", <<name, reportType, metrics, tools>>) :
                     reportType \in ReportTypes,
                     metrics \in [CPUProfileFilePath : ProfilePaths(name, "cpu"),
                                  MemProfileFilePath : ProfilePaths(name, "mem")],
                     tools \in RenderHosts}

NextView ==
    /\ ev.fn = "ViewFunctionMetrics"
    /\ ~ev.done
    /\ ev' = [ev EXCEPT !.done = TRUE,
                        !.out = ViewFunctionMetrics(ev.in[1], ev.in[2],
                                                    ev.in[3], ev.in[4])]
    /\ UNCHANGED <<profilerVars, readerVars, serviceVars, storeVars>>

SpecView == InitView /\ [][NextView]_vars

\* The strings the result carries in place of a report that could not be made.
ErrorStrings ==
    {GoNotFoundReport, GoNotFoundTrace, EmptyPathReport}
    \cup {"Error executing pprof: " \o PprofCommand(t, p) :
             t \in ReportTypes,
             p \in UNION {ProfilePaths(n, k) : n \in ProfiledNames, k \in {"cpu", "mem"}}}
    \cup {"Error generating code trace: " \o PprofCommand("list " \o n, p) :
             n \in ProfiledNames,
             p \in UNION {ProfilePaths(m, "cpu") : m \in ProfiledNames}}

Viewed == ev.fn = "ViewFunctionMetrics" /\ ev.done

\* C26: without the go command the three texts of the result are error
\* strings and no subprocess ran; with the go command and an empty profile
\* path, the report of that profile is an error string; either way the call
\* returns a result.
C26_DegradesToErrorStrings ==
    Viewed =>
        /\ ev.out.FunctionName = ev.in[1]
        /\ ~ev.in[4].goFound =>
              /\ ev.out.CPU \in ErrorStrings
              /\ ev.out.Mem \in ErrorStrings
              /\ ev.out.FunctionCodeTrace \in ErrorStrings
              /\ ev.out.commands = <<>>
        /\ (ev.in[4].goFound /\ ev.in[3].CPUProfileFilePath = "") =>
              ev.out.CPU \in ErrorStrings
        /\ (ev.in[4].goFound /\ ev.in[3].MemProfileFilePath = "") =>
              ev.out.Mem \in ErrorStrings

\* The go command is missing while both profiles are on disk.
C26_Witness ==
    /\ Viewed
    /\ ~ev.in[4].goFound
    /\ ev.in[3].CPUProfileFilePath # ""
    /\ ev.in[3].MemProfileFilePath # ""
    /\ ev.out.CPU = GoNotFoundReport
    /\ ev.out.FunctionCodeTrace = GoNotFoundTrace
    /\ ev.out.commands = <<>>

\* C27: a request that carries the method the integration documentation
\* lists for its endpoint is never answered 405 Method Not Allowed.
C27_ListedMethodServed ==
    (/\ ev.fn = "Handle"
     /\ ev.done
     /\ ev.in[1].endpoint # "other"
     /\ ev.in[1].method = ListedMethod(ev.in[1].endpoint))
        => ev.out.status # 405

\* The spelling of a type name of the model, cut at its path separators.
TypeSpelling(t) ==
    IF t = "p.Box[m/q.T]" THEN <<"p.Box[m", "/", "q.T]">> ELSE <<t>>

\* The spelling of an identity or a path: each of its elements spelled out.
RECURSIVE Spelling(_)
Spelling(s) ==
    IF s = << >> THEN << >> ELSE TypeSpelling(Head(s)) \o Spelling(Tail(s))

\* The file name of an artifact path under the profiles directory.
FileName(path) == SubSeq(path, Len(FolderPath) + 2, Len(path))

\* C28: the artifact paths recorded for an identity are
\* <basePath>/profiles/<identity>_cpu.prof and <identity>_mem.prof, two
\* identities never share a path, and the file names hold no path separator.
C28_ArtifactNamesAreSafe ==
    \A n \in DOMAIN functionMetrics :
        LET m == functionMetrics[n]
        IN  /\ m.CPUProfileFilePath \in {EmptyString, CpuProfFilePath(n)}
            /\ m.MemProfileFilePath \in {EmptyString, MemProfFilePath(n)}
            /\ \A k \in DOMAIN functionMetrics :
                   (k # n /\ m.CPUProfileFilePath # EmptyString) =>
                       /\ m.CPUProfileFilePath
                              # functionMetrics[k].CPUProfileFilePath
                       /\ m.CPUProfileFilePath
                              # functionMetrics[k].MemProfileFilePath
            /\ "/" \notin Range(Spelling(FileName(m.CPUProfileFilePath)))
            /\ "/" \notin Range(Spelling(FileName(m.MemProfileFilePath)))

\* The same with the separators looked for in the callable's name only.
C28_CallableNameIsSafe ==
    \A n \in DOMAIN functionMetrics :
        LET m == functionMetrics[n]
        IN  /\ m.CPUProfileFilePath \in {EmptyString, CpuProfFilePath(n)}
            /\ m.MemProfileFilePath \in {EmptyString, MemProfFilePath(n)}
            /\ "/" \notin Range(FileName(m.CPUProfileFilePath))
            /\ "/" \notin Range(FileName(m.MemProfileFilePath))

\* C29: the table has a record for an identity once an invocation of it has
\* completed and not before: a record appears only in the update of an
\* invocation whose target has run, under that invocation's identity and
\* only when the identity has none; an invocation of an identity that has a
\* record leaves the set of records as it is; a returned invocation whose
\* target ran has its record; and no step takes a record out of the table.
C29_OneRecordPerCompletedIdentity ==
    [][/\ DOMAIN functionMetrics \subseteq DOMAIN functionMetrics'
       /\ \A n \in (DOMAIN functionMetrics') \ (DOMAIN functionMetrics) :
              /\ DOMAIN functionMetrics' = (DOMAIN functionMetrics) \cup {n}
              /\ \E c \in Callers :
                     /\ pc[c] = "create"
                     /\ loc[c].name = n
                     /\ loc[c].ran = 1
       /\ \A c \in Callers :
              /\ (pc[c] # "idle" /\ loc[c].name \in DOMAIN functionMetrics
                  /\ pc'[c] # pc[c]) =>
                     DOMAIN functionMetrics' = DOMAIN functionMetrics
              /\ (pc'[c] = "returned" /\ loc'[c].ran = 1) =>
                     loc'[c].name \in DOMAIN functionMetrics'
              /\ (pc'[c] = "returned" /\ loc'[c].ran = 0
                  /\ loc'[c].id = 1) =>
                     functionMetrics' = EmptyMap]_vars

\* The second invocation has returned, of another identity than the first:
\* the table holds the record the first created and the one this one created.
C29_Witness ==
    /\ pc[1] = "returned"
    /\ loc[1].id = 2
    /\ loc[1].ran = 1
    /\ Cardinality(DOMAIN functionMetrics) = 2
    /\ writers[loc[1].name].lastRanAt = 2
    /\ \E n \in DOMAIN functionMetrics : writers[n].lastRanAt = 1

\* C30: once the panic of a target has come out of a trace call, no CPU
\* profile that the call started is left open, in a sampled invocation as in
\* any other, and none is open when the caller calls again.
C30_PanicLeavesProfilingStopped ==
    \A c \in Callers :
        /\ pc[c] = "panicked" => loc[c].id \notin openProfiles
        /\ pc[c] = "idle" => openProfiles = {}

\* A panic in an invocation that is not sampled leaves nothing open.
C30_UnsampledPanicLeavesProfilingStopped ==
    \A c \in Callers :
        (pc[c] = "panicked" /\ ~loc[c].shouldProfile) =>
            loc[c].id \notin openProfiles

\* The verdicts with which a reflective wrapper rejects a call.
Rejections == {"notfunc", "count", "type"}

\* C31: no step of a rejected reflective call, from its entry to its return,
\* changes the call counters, the table, the sampling history or the set of
\* open profiles, and the call computes no artifact path.
C31_RejectedCallChangesNothing ==
    [][\A c \in Callers :
           (pc'[c] # pc[c] /\ pc[c] # "returned"
            /\ loc'[c].api \in Reflective
            /\ loc'[c].verdict \in Rejections) =>
               /\ UNCHANGED <<callCounters, functionMetrics, writers, log,
                              openProfiles, samplingRate, countersMu, mu>>
               /\ pc'[c] = "returned"
               /\ loc'[c].ran = 0
               /\ loc'[c].cpuProfFilePath = EmptyString
               /\ loc'[c].memProfFilePath = EmptyString]_vars

\* The second call, rejected for the type of an argument, has returned; the
\* first one left a counter and a record, which are as it left them.
C31_Witness ==
    /\ pc[1] = "returned"
    /\ loc[1].id = 2
    /\ loc[1].api \in Reflective
    /\ loc[1].verdict = "type"
    /\ \E n \in DOMAIN callCounters :
           /\ callCounters[n] = 1
           /\ n \in DOMAIN functionMetrics
           /\ writers[n].lastRanAt = 1
    /\ Cardinality(DOMAIN callCounters) = 1

\* C32: the six sub-collectors assign pairwise disjoint fields of the
\* snapshot, none of them a field of the caller; a sub-collector's step
\* changes its own part and no other; between launch and join the caller
\* leaves the snapshot alone; so after the join each part is what its
\* sub-collector computed from the answers of the stat sources, whatever the
\* order in which the sub-collectors ran.
C32_CollectorsDoNotInterfere ==
    [][/\ \A j, k \in Collectors :
              /\ j # k => WrittenFields(j) \cap WrittenFields(k) = {}
              /\ WrittenFields(k) \cap CallerFields = {}
       /\ \A k \in Collectors :
              (cpc[k] = "running" /\ cpc'[k] # "running") =>
                  /\ stats'[k] = Collected(k, failing, reading)
                  /\ \A j \in Collectors \ {k} :
                         IF cpc[j] = "running" THEN stats'[j] = Unset
                         ELSE stats'[j] = Collected(j, failing, reading)
       /\ (gpc = "wait" /\ gpc' = "wait") =>
              /\ stats'["core"] = stats["core"]
              /\ stats'["health"] = Unset
              /\ healthInput' = healthInput
       /\ (gpc = "wait" /\ gpc' = "health") =>
              \A k \in Collectors :
                  stats[k] = Collected(k, failing, reading)]_vars

\* The sub-collectors run in another order than they were launched in: the
\* disk collector, launched last, has finished while the load collector,
\* launched first, has not written yet.
C32_Witness ==
    /\ gpc = "wait"
    /\ cpc["disk"] = "done"
    /\ cpc["cpu"] = "written"
    /\ cpc["load"] = "running"
    /\ stats["disk"] = Collected("disk", failing, reading)
    /\ stats["cpu"] = Collected("cpu", failing, reading)
    /\ stats["load"] = Unset

\* The general query has answered with rows.
GeneralAnswered ==
    /\ ev.fn = "GetServiceMetricsFromStorage"
    /\ ev.done
    /\ ev.out.status = 200

\* The positions, in the order fetched, of the points of field f stamped t.
PositionsAt(f, t) ==
    {i \in 1..Len(ev.in[2][f]) : ev.in[2][f][i].Timestamp = t}

\* The last of a non-empty set of positions.
LastOf(positions) == CHOOSE i \in positions : \A j \in positions : j <= i

\* C33: whatever timestamps the points fetched for a field repeat, the query
\* answers with rows; a timestamp has one row, and the value of the field in
\* it is the value of the last point fetched with that timestamp.
C33_LastDuplicateWins ==
    /\ (ev.fn = "GetServiceMetricsFromStorage" /\ ev.done
        /\ ev.in[3] \notin Range(ev.in[1])) => ev.out.status = 200
    /\ GeneralAnswered =>
           \A f \in Range(ev.in[1]), t \in 0..MaxTimestamp :
               PositionsAt(f, t) # {} =>
                   /\ Cardinality({i \in 1..Len(ev.out.body) :
                         ev.out.body[i].time = FormatTime(t)}) = 1
                   /\ \A i \in 1..Len(ev.out.body) :
                          ev.out.body[i].time = FormatTime(t) =>
                              /\ Key(f) \in DOMAIN ev.out.body[i].value
                              /\ ev.out.body[i].value[Key(f)] =
                                     ev.in[2][f][LastOf(PositionsAt(f, t))].Value

\* Two points fetched for heap_alloc carry the same timestamp and different
\* values: one row, with the value of the second.
C33_Witness ==
    /\ GeneralAnswered
    /\ ev.in[1] = <<"heap_alloc">>
    /\ ev.in[2]["heap_alloc"] = DataPoints("heap_alloc", <<1, 1>>)
    /\ Len(ev.out.body) = 1
    /\ ev.out.body[1].value["HeapAlloc"] = ValueOf("heap_alloc", 2)
    /\ ValueOf("heap_alloc", 2) # ValueOf("heap_alloc", 1)

\* The name NameMap gives a field, or the field's own name.
OutputName(f) == IF f \in DOMAIN NameMap THEN NameMap[f] ELSE f

\* The requested fields with a fetched point stamped t.
FieldsAt(t) == {f \in Range(ev.in[1]) : PositionsAt(f, t) # {}}

\* C34: the keys of a row of the general query are the aliases of the
\* requested fields with data at the row's time that NameMap holds and the
\* own names of the others, one key per field; no two of the metric names
\* that can have data share an output key, and the requested names of the
\* model without data are not metric names.
C34_AliasOrOwnName ==
    /\ GeneralAnswered =>
           \A i \in 1..Len(ev.out.body), t \in 0..MaxTimestamp :
               ev.out.body[i].time = FormatTime(t) =>
                   /\ DOMAIN ev.out.body[i].value =
                          {OutputName(f) : f \in FieldsAt(t)}
                   /\ Cardinality(DOMAIN ev.out.body[i].value) =
                          Cardinality(FieldsAt(t))
    /\ (ev.fn = "GetServiceMetricsFromStorage" /\ ~ev.done
        /\ ev.in[1] = << >>) =>
           /\ Cardinality({OutputName(f) : f \in AllMetricNames}) =
                  Cardinality(AllMetricNames)
           /\ StoredMetrics \subseteq AllMetricNames
           /\ (QueryFields \ StoredMetrics) \cap AllMetricNames = {}

\* A row with the value of heap_alloc under HeapAlloc and the value of
\* goroutines under goroutines.
C34_Witness ==
    /\ GeneralAnswered
    /\ ev.in[1] = <<"goroutines", "heap_alloc">>
    /\ ev.in[2]["heap_alloc"] = DataPoints("heap_alloc", <<1>>)
    /\ ev.in[2]["goroutines"] = DataPoints("goroutines", <<1>>)
    /\ Len(ev.out.body) = 1
    /\ ev.out.body[1].value =
           ("HeapAlloc" :> ValueOf("heap_alloc", 1))
           @@ ("goroutines" :> ValueOf("goroutines", 1))

\* StoreServiceMetrics has returned nil: the batch was handed over and
\* accepted.
Stored == spc = "returned" /\ sloc.err = "nil"

\* The snapshot fields the points of a batch are read from.
StoredFields(rows) == {rows[i].DataPoint.Value : i \in 1..Len(rows)}

\* C35: the batch of a snapshot has a point for the numeric fields of every
\* domain of the snapshot; in particular for the two byte counters of the
\* network domain and the two of the disk domain, which GetServiceStats
\* fills in the same way.
C35_EveryDomainStored ==
    Stored =>
        /\ \A k \in 1..NumGenerators :
               Range(GeneratedRows(k, sloc.records, sloc.label,
                                   sloc.timestamp))
                   \subseteq Range(sloc.rows)
        /\ \A k \in {"network", "disk"} :
               WrittenFields(k) \subseteq StoredFields(sloc.rows)

\* The batch has the points of the six generators: core, load, CPU, memory
\* with the raw records, network and health.
C35_GeneratedDomainsStored ==
    Stored =>
        /\ \A k \in 1..NumGenerators :
               Range(GeneratedRows(k, sloc.records, sloc.label,
                                   sloc.timestamp))
                   \subseteq Range(sloc.rows)
        /\ WrittenFields("network") \subseteq StoredFields(sloc.rows)

\* The identity the claim gives a callable: the base name, the parameter
\* types in parentheses if there are any, the result types after "->" in
\* parentheses if there are any.
Identity(f) ==
    ReplaceAll(f.name, "/", "-")
    \o (IF f.params = << >> THEN << >>
        ELSE <<"(">> \o Join(f.params, ",") \o <<")">>)
    \o (IF f.results = << >> THEN << >>
        ELSE <<"->(">> \o Join(f.results, ",") \o <<")">>)

\* C36: a trace call that passed the validation runs under the identity of
\* its callable, through the reflective wrappers as through TraceFunction,
\* and counts and records under it; callables with one base name and
\* different signatures have different identities.
C36_IdentityIsNameAndSignature ==
    /\ \A c \in Callers :
           (loc[c].verdict = "ok" /\ pc[c] # "idle") =>
               /\ loc[c].name = Identity(loc[c].f)
               /\ pc[c] \in {"decide", "start", "run", "measure"} =>
                      /\ loc[c].name \in DOMAIN callCounters
                      /\ loc[c].count = callCounters[loc[c].name]
               /\ (pc[c] = "returned" /\ loc[c].ran = 1) =>
                      loc[c].name \in DOMAIN functionMetrics
    /\ \A f \in Callables, g \in Callables :
           (/\ f.kind = "func" /\ g.kind = "func"
            /\ f.name = g.name
            /\ <<f.params, f.results>> # <<g.params, g.results>>) =>
               Identity(f) # Identity(g)
    /\ DOMAIN functionMetrics \subseteq DOMAIN callCounters
    /\ DOMAIN callCounters \subseteq
           {Identity(f) : f \in (Callables \cup Thunks) \ {NotAFunc}}

\* The second call of the parameterless, resultless callable, through a
\* reflective wrapper, has returned: one counter, at 2, and one record, last
\* written by this call.
C36_Witness ==
    /\ pc[1] = "returned"
    /\ loc[1].id = 2
    /\ loc[1].api \in Reflective
    /\ loc[1].f = FuncNoArgs
    /\ callCounters = (TraceFunctionName(FuncNoArgs) :> 2)
    /\ DOMAIN functionMetrics = {TraceFunctionName(FuncNoArgs)}
    /\ writers[TraceFunctionName(FuncNoArgs)].lastRanAt = 2

\* Call id has done all the writes of its table update.
UpdateCompleted(id) ==
    \A c \in Callers :
        loc[c].id = id => pc[c] \in {"unlockMetrics", "returned"}

\* A profiled invocation of identity n has completed its table update.
ProfiledCompleted(n) ==
    \E e \in Decisions(n) : e.profiled /\ UpdateCompleted(e.id)

\* A caller holds mu and is in the middle of the writes to the record of n.
MidUpdate(n) ==
    \E c \in Callers :
        /\ mu = CallerOwner(c)
        /\ loc[c].name = n
        /\ pc[c] # "unlockMetrics"

\* C37: whenever no update of the record of an identity is under way, its
\* CPU profile path and its heap profile path are non-empty iff a profiled
\* invocation of the identity has completed its table update, and until then
\* its memory delta is 0.
C37_PathsIffProfiledCompleted ==
    \A n \in DOMAIN functionMetrics :
        ~MidUpdate(n) =>
            /\ functionMetrics[n].CPUProfileFilePath # EmptyString
                   <=> ProfiledCompleted(n)
            /\ functionMetrics[n].MemProfileFilePath # EmptyString
                   <=> ProfiledCompleted(n)
            /\ ~ProfiledCompleted(n) => functionMetrics[n].MemoryUsage = 0

\* At rate 2 the first invocation has returned and the second, the profiled
\* one, has started its CPU profile and not yet updated the table: the
\* record has no paths.
C37_Witness ==
    /\ samplingRate = 2
    /\ TracedName \in DOMAIN functionMetrics
    /\ functionMetrics[TracedName].CPUProfileFilePath = EmptyString
    /\ functionMetrics[TracedName].MemProfileFilePath = EmptyString
    /\ \E c \in Callers :
           /\ pc[c] = "measure"
           /\ loc[c].shouldProfile
           /\ loc[c].count = 2
           /\ loc[c].cpuProfFilePath = CpuProfFilePath(TracedName)

\* Trace call id is in progress at position p.
CallAt(id, p) == \E c \in Callers : loc[c].id = id /\ pc[c] = p

\* C38: no caller holds the counter lock and the table lock at the same
\* time, and no goroutine with a suspended frame holds either; under fair
\* scheduling every trace call that has started returns, whether its target
\* calls trace again or not, every read of the table that has taken the
\* lock returns, and both locks are free again and again.
C38_NoDeadlock ==
    /\ [](\A c \in Callers :
              /\ ~(countersMu = CallerOwner(c) /\ mu = CallerOwner(c))
              /\ suspended[c] # << >> /\ pc[c] = "lockCounters" =>
                     countersMu # CallerOwner(c) /\ mu # CallerOwner(c))
    /\ \A id \in 1..MaxLiveCalls :
           CallAt(id, "lockCounters") ~> CallAt(id, "returned")
    /\ \A r \in Readers : (rpc[r] = "copy") ~> (rpc[r] = "idle")
    /\ []<>(mu = NoOwner)
    /\ []<>(countersMu = NoOwner)

\* The target of a trace call is inside a trace call of its own, which
\* holds the counter lock while a read of the table holds the table lock.
C38_Witness ==
    \E c \in Callers :
        /\ suspended[c] # << >>
        /\ Head(suspended[c]).ran = 0
        /\ countersMu = CallerOwner(c)
        /\ \E r \in Readers : mu = ReaderOwner(r)

\* C39: the last-invocation time of a record never moves backwards from one
\* table update to the next, so that after overlapping invocations of one
\* identity it is the start time of the one that started last.
C39_LastRanAtNeverMovesBack ==
    [][\A n \in DOMAIN functionMetrics :
           n \in DOMAIN functionMetrics' =>
               functionMetrics'[n].FunctionLastRanAt
                   >= functionMetrics[n].FunctionLastRanAt]_vars

\* What the table update does keep: the last-invocation time of a record is
\* the start time its latest writer took, whichever call started last.
C39_LastRanAtIsStartOfLastWriter ==
    [][\A c \in Callers :
           pc[c] \in {"setLastRanAt", "create"} /\ pc'[c] # pc[c] =>
               functionMetrics'[loc[c].name].FunctionLastRanAt = loc[c].start]_vars

\* No two positions of a sequence hold the same element.
PairwiseDistinct(seq) ==
    \A i, j \in 1..Len(seq) : i # j => seq[i] # seq[j]

\* The key under which the storage files a row.
RowKey(row) == <<row.Metric, row.Labels, row.DataPoint.Timestamp>>

\* C40: in the batch one StoreServiceMetrics call hands to InsertRows the
\* metric names are pairwise distinct, and so are the (metric, labels,
\* timestamp) keys, whenever the raw memory records of the snapshot have
\* pairwise distinct names, as those of ConstructRawMemStats have; with
\* those 27 records no fixed name is the name of a record.
C40_BatchKeysDistinct ==
    /\ spc \in {"insert", "returned"} /\ PairwiseDistinct(sloc.records) =>
           /\ PairwiseDistinct(MetricsOf(sloc.rows))
           /\ PairwiseDistinct([i \in 1..Len(sloc.rows) |-> RowKey(sloc.rows[i])])
    /\ spc = "label" =>
           /\ PairwiseDistinct(ConstructRawMemStats)
           /\ PairwiseDistinct(MetricsOf(SnapshotRows(GetHostLabel(host),
                                                      sloc.timestamp)))

\* A snapshot with a raw record named heap_alloc has been stored.
C40_Witness ==
    /\ Stored
    /\ inserted # << >>
    /\ \E i \in 1..Len(sloc.records) : sloc.records[i] = "heap_alloc"
    /\ \E i \in 1..Len(sloc.rows) : sloc.rows[i].Metric = "heap_alloc_by_service"

====
